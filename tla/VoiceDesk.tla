------------------------------ MODULE VoiceDesk ------------------------------
(***************************************************************************)
(* Orders by voice: the voice service (voice/main.py, service.py,          *)
(* intent.py, world.py) and the gateway it thinks with                     *)
(* (gateway/service.py, policy.py, adapters/).                             *)
(*                                                                         *)
(* A sentence becomes a readback, a readback waits for its answer, and a   *)
(* yes becomes an order to TRACK.  Each request is a task that runs from   *)
(* one await to the next; readbacks are kept for the process, under the    *)
(* caller's key.  TRACK, the adapters' machinery and the operators are     *)
(* external.  Names are model values; Loose says which contain one         *)
(* another.                                                                *)
(***************************************************************************)
EXTENDS Naturals, Sequences, FiniteSets

CONSTANTS
    Callers,    \* operators' tokens
    Fleet,      \* the machines on the map: [id, name]
    PlaceNames, \* the zones' names, of zones that have a shape
    Loose,      \* pairs of names of which one contains the other
    Sayings,    \* what the language service may make of a sentence
    Profiles,   \* policy profiles: [cloud, adapters: capability -> sequence of names]
    Built,      \* the adapters this build carries
    Does,       \* per adapter built, its capabilities
    Remote,     \* sets of adapters that may leave the machine, by their endpoint
    MaxChanges, \* bound on the times an adapter comes or goes
    MaxAsks,    \* bound on the sentences said
    MaxReplies, \* bound on the answers given to readbacks
    Ttl         \* PENDING_TTL_S, in steps of time

Capabilities == {"transcribe", "speak", "understand_order"}
NoName == "no name"

ASSUME VoiceAssumption ==
    /\ {MaxChanges, MaxAsks, MaxReplies, Ttl} \subseteq Nat
    /\ \A p \in Profiles :
          /\ p.cloud \in BOOLEAN /\ Capabilities \subseteq DOMAIN p.adapters
          /\ \A key \in DOMAIN p.adapters :
                Len(p.adapters[key]) \in Nat /\ DOMAIN p.adapters[key] = 1..Len(p.adapters[key])
    /\ Does \in [Built -> SUBSET Capabilities] /\ Remote \subseteq SUBSET Built
    /\ \A s \in Sayings : s.kind \in {"order", "question", "unclear"}

VARIABLES
    profile,  \* the policy profile of this deployment
    leaving,  \* the adapters that leave the machine (leaves_the_machine)
    usable,   \* the adapters that are installed and up
    changes,  \* the times an adapter has come or gone
    offers,   \* the jobs the last check called usable, since the adapters last changed
    asks,     \* the sentences, in order: [by, typed, at, order], an order a set of one at most
    pending,  \* the readbacks kept, by the key they are kept under
    since,    \* per sentence, how long ago its readback was kept
    replies   \* the answers to readbacks, in order: [by, ask, yes, at, taken, told]

voice == <<profile, leaving, usable, changes, offers, asks, pending, since, replies>>

VoiceOrders == [machine : {m.id : m \in Fleet}, task : {s.task : s \in Sayings},
                place : PlaceNames \cup {NoName}]

VoiceOK ==
    /\ profile \in Profiles /\ leaving \in Remote /\ usable \subseteq Built /\ changes \in 0..MaxChanges /\ offers \subseteq Capabilities
    /\ asks \in Seq([by : Callers, typed : BOOLEAN, order : SUBSET VoiceOrders,
                     at : {"checking", "hearing", "seeing", "thinking", "speaking", "asked", "over"}])
    /\ Len(asks) <= MaxAsks
    /\ pending \subseteq Callers \X (1..Len(asks))
    /\ since \in [1..MaxAsks -> 0..Ttl + 1]
    /\ replies \in Seq([by : Callers, ask : 1..MaxAsks, yes : BOOLEAN, taken : BOOLEAN,
                        at : {"checking", "issuing", "answering", "over"},
                        told : {"nothing", "cancelled", "sent", "not accepted", "cannot see"}])
    /\ Len(replies) <= MaxReplies

VoiceInit ==
    /\ profile \in Profiles /\ leaving \in Remote /\ usable = Built /\ changes = 0 /\ offers = {}
    /\ asks = <<>> /\ pending = {} /\ since = [x \in 1..MaxAsks |-> 0] /\ replies = <<>>

policy == <<profile, leaving, usable, changes, offers>>

------------------------------------------------------------------------------
(* The gateway.                                                               *)

Allowed(name) == name \notin leaving \/ profile.cloud

\* check: what an adapter is reported as.
ReportedUsable(name) == name \in Built /\ name \in usable /\ Allowed(name)
Reported(name) == ReportedUsable(name)

\* Its answer to whether anything here leaves the machine, over every key the
\* profile has, the ones this build does not know included.
Named == UNION {{p[i] : i \in DOMAIN p} : p \in {profile.adapters[key] : key \in DOMAIN profile.adapters}}
AnythingLeaves ==
    IF Named \cap Built \cap leaving # {} THEN "yes"
    ELSE IF Named \subseteq Built THEN "no" ELSE "unknown"

CheckGateway ==
    /\ offers' = {job \in Capabilities : \E i \in DOMAIN profile.adapters[job] : Reported(profile.adapters[job][i])}
    /\ UNCHANGED <<profile, leaving, usable, changes, asks, pending, since, replies>>

\* A server or a file comes or goes; what the check said is then out of date.
AdapterChanges(name) ==
    /\ changes < MaxChanges /\ changes' = changes + 1
    /\ usable' = IF name \in usable THEN usable \ {name} ELSE usable \cup {name}
    /\ offers' = {}
    /\ UNCHANGED <<profile, leaving, asks, pending, since, replies>>

\* _pick: the adapters a request comes to before one will do; a name this build
\* does not carry ends the search.
Serves(job, name) == name \in Built /\ Allowed(name) /\ job \in Does[name] /\ name \in usable
Picked(job) ==
    LET names == profile.adapters[job] IN
    {names[i] : i \in {j \in DOMAIN names : /\ Serves(job, names[j])
                                            /\ \A k \in 1..j - 1 : names[k] \in Built /\ ~Serves(job, names[k])}}

------------------------------------------------------------------------------
(* Names.                                                                     *)

\* _match_asset and _match_zone: the one that is called so, or else the only one
\* whose name contains this one or is contained in it; never the nearest.
Matches(said, things) ==
    LET exact == {t \in things : t.name = said}
        loose == {t \in things : t.name = said \/ {<<said, t.name>>, <<t.name, said>>} \cap Loose # {}}
        found == IF Cardinality(exact) = 1 THEN exact
                 ELSE IF Cardinality(loose) = 1 THEN loose ELSE {}
    IN IF said = NoName THEN {} ELSE {t.id : t \in found}

\* resolve: the order a sentence turns out to be, if it is one and every name in
\* it is known, with a readback to confirm it by.
Goes(s) == s.task \in {"navigate", "patrol"}
KnownPlaces == {[id |-> p, name |-> p] : p \in PlaceNames}
NamedPlace(s) == IF Goes(s) THEN Matches(s.place, KnownPlaces) ELSE {NoName}
Resolved(s) ==
    IF s.kind # "order" \/ s.task = "" \/ ~s.readback THEN {}
    ELSE [machine : Matches(s.machine, Fleet), task : {s.task}, place : NamedPlace(s)]

------------------------------------------------------------------------------
(* A sentence: listen or say, then interpret.                                 *)

Move(x, at) == asks' = [asks EXCEPT ![x].at = at]

Ask(c, typed) ==
    /\ Len(asks) < MaxAsks
    /\ asks' = Append(asks, [by |-> c, typed |-> typed, at |-> "checking", order |-> {}])
    /\ UNCHANGED policy /\ UNCHANGED <<pending, since, replies>>

\* _signed_in: the token is refused, TRACK cannot be asked, or it is good.
CheckAsker(x) ==
    /\ asks[x].at = "checking"
    /\ Move(x, "over") \/ Move(x, IF asks[x].typed THEN "seeing" ELSE "hearing")
    /\ UNCHANGED policy /\ UNCHANGED <<pending, since, replies>>

\* Whatever fails from here on is answered in words.
GiveUp(x) ==
    /\ asks[x].at \in {"hearing", "seeing", "thinking"}
    /\ Move(x, "over")
    /\ UNCHANGED policy /\ UNCHANGED <<pending, since, replies>>

Hear(x) ==
    /\ asks[x].at = "hearing" /\ Picked("transcribe") # {}
    /\ Move(x, "seeing")
    /\ UNCHANGED policy /\ UNCHANGED <<pending, since, replies>>

See(x) ==
    /\ asks[x].at = "seeing"
    /\ Move(x, "thinking")
    /\ UNCHANGED policy /\ UNCHANGED <<pending, since, replies>>

Think(x, s) ==
    /\ asks[x].at = "thinking" /\ Picked("understand_order") # {}
    /\ IF Resolved(s) = {} THEN Move(x, "over")
       ELSE asks' = [asks EXCEPT ![x].at = "speaking", ![x].order = Resolved(s)]
    /\ UNCHANGED policy /\ UNCHANGED <<pending, since, replies>>

\* _from_intent: the readback is spoken, or cannot be, and only then kept.
Keep(x) ==
    /\ asks[x].at = "speaking"
    /\ Move(x, "asked")
    /\ pending' = pending \cup {<<asks[x].by, x>>} /\ since' = [since EXCEPT ![x] = 0]
    /\ UNCHANGED policy /\ UNCHANGED replies

------------------------------------------------------------------------------
(* The answer to a readback: confirm.                                         *)

Reply(c, x, yes) ==
    /\ Len(replies) < MaxReplies /\ asks[x].at = "asked"
    /\ replies' = Append(replies, [by |-> c, ask |-> x, yes |-> yes, at |-> "checking", taken |-> FALSE,
                                   told |-> "nothing"])
    /\ UNCHANGED policy /\ UNCHANGED <<asks, pending, since>>

Tell(r, told) == replies' = [replies EXCEPT ![r].at = "over", ![r].told = told]

\* The reply when TRACK cannot be asked who this is, or says it does not know.
CheckFails(r) ==
    /\ replies[r].at = "checking"
    /\ Tell(r, "cannot see") \/ Tell(r, "nothing")
    /\ UNCHANGED policy /\ UNCHANGED <<asks, pending, since>>

\* _forget_stale, and the readback is taken out.  (Variant: looked up.)
Fresh == {k \in pending : since[k[2]] <= Ttl}
LookUp(k) == Fresh
Pop(k) == Fresh \ {k}
AfterTaking(k) == Pop(k)

TakeReadback(r) ==
    LET key == <<replies[r].by, replies[r].ask>> IN
    /\ replies[r].at = "checking"
    /\ pending' = AfterTaking(key)
    /\ IF key \in Fresh /\ replies[r].yes THEN replies' = [replies EXCEPT ![r].at = "issuing"]
       ELSE Tell(r, "cancelled")
    /\ UNCHANGED policy /\ UNCHANGED <<asks, since>>

\* create_task reaches TRACK, which takes the order ...
TrackTakesIt(r) ==
    /\ replies[r].at = "issuing"
    /\ replies' = [replies EXCEPT ![r].at = "answering", ![r].taken = TRUE]
    /\ UNCHANGED policy /\ UNCHANGED <<asks, pending, since>>

\* ... or refuses it, or is never reached.
TrackDoesNot(r) ==
    /\ replies[r].at = "issuing"
    /\ Tell(r, "not accepted")
    /\ UNCHANGED policy /\ UNCHANGED <<asks, pending, since>>

\* Its answer comes, or the request times out first.
TrackAnswers(r) ==
    /\ replies[r].at = "answering"
    /\ Tell(r, "sent") \/ Tell(r, "not accepted")
    /\ UNCHANGED policy /\ UNCHANGED <<asks, pending, since>>

VoiceTick ==
    /\ \E k \in pending : since[k[2]] <= Ttl
    /\ since' = [x \in 1..MaxAsks |-> IF since[x] <= Ttl THEN since[x] + 1 ELSE since[x]]
    /\ UNCHANGED policy /\ UNCHANGED <<asks, pending, replies>>

------------------------------------------------------------------------------
VoiceNext ==
    \/ CheckGateway \/ VoiceTick
    \/ \E a \in Built : AdapterChanges(a)
    \/ \E c \in Callers : \/ \E typed \in BOOLEAN : Ask(c, typed)
                          \/ \E x \in DOMAIN asks, yes \in BOOLEAN : Reply(c, x, yes)
    \/ \E x \in DOMAIN asks :
          \/ CheckAsker(x) \/ GiveUp(x) \/ Hear(x) \/ See(x) \/ Keep(x)
          \/ \E s \in Sayings : Think(x, s)
    \/ \E r \in DOMAIN replies :
          CheckFails(r) \/ TakeReadback(r) \/ TrackTakesIt(r) \/ TrackDoesNot(r) \/ TrackAnswers(r)

VoiceSpec == VoiceInit /\ [][VoiceNext]_voice

------------------------------------------------------------------------------
(* Properties.                                                                *)

\* However often, by however many and however much at once a readback is
\* answered, at most one order comes of it, and from a yes of the operator who
\* was asked (service.py confirm, "the only path that acts").
OneOrderPerReadback ==
    \A r \in DOMAIN replies : replies[r].taken =>
        /\ replies[r].yes /\ replies[r].by = asks[replies[r].ask].by
        /\ \A q \in DOMAIN replies : replies[q].taken /\ replies[q].ask = replies[r].ask => q = r

\* The profile names only adapters this build carries, for jobs they do.
WellFormed ==
    \A job \in Capabilities : \A i \in DOMAIN profile.adapters[job] :
        profile.adapters[job][i] \in Built /\ job \in Does[profile.adapters[job][i]]

\* What the check calls usable, a request finds an adapter for, as long as
\* nothing has come or gone since: an operator is not given a control that
\* cannot work (main.py capabilities; check and _pick decide it separately).  And
\* when it says that nothing leaves the machine, no request is served by an
\* adapter that does; under a profile without a cloud none ever is.
CheckIsTrue ==
    /\ WellFormed => \A job \in offers : Picked(job) # {}
    /\ AnythingLeaves = "no" \/ ~profile.cloud =>
          \A job \in Capabilities : Picked(job) \cap leaving = {}

\* "That order was not accepted" is what ops.yaml has the machine say of an
\* order the world model refused.  The code does not have this one: an answer that
\* comes too late tells the same of an order it took.
RefusedMeansRefused == \A r \in DOMAIN replies : replies[r].told = "not accepted" => ~replies[r].taken

=============================================================================
