------------------------------ MODULE RigProofs ------------------------------
(***************************************************************************)
(* What the rig of ugv-01 promises for any windows, gears and number of    *)
(* mishaps.                                                                *)
(*                                                                         *)
(* The proofs follow the code from the inside out, one lemma for each      *)
(* operator of Ugv01Controls, of the adapter and of the boards: XDoes says *)
(* what X leaves alone and what it may add to a wire, and a method that    *)
(* calls others is put together with the lemmas on two steps in a row      *)
(* (XTwice).  NextIsGood joins the actions.                                *)
(*                                                                         *)
(* The steering is a second round over the same operators, for links that  *)
(* lose no frame: XSteers says that X keeps the steering steady, and       *)
(* NextSteers joins the actions.  The brake's moves are a third: XBraces   *)
(* says that after X the controls still know of every move and how long it *)
(* has been on, and NextBraces joins the actions.                          *)
(***************************************************************************)
EXTENDS Ugv01Rig, SequenceTheorems, WellFoundedInduction, TLAPS

------------------------------------------------------------------------------
(* Frames keep to their link.                                                 *)

AccelFrames == [cmd : {"duty"}, arg : Duties] \cup [cmd : {"alive", "read"}, arg : {""}]
DriveFrames ==
    [cmd : {"brake"}, arg : {"stop", "apply", "release"}] \cup [cmd : {"steer"}, arg : {"stop", "turn"}]
    \cup [cmd : {"gear"}, arg : {"D", "N"}] \cup [cmd : {"alive", "angles"}, arg : {""}]
FramesOf(l) == IF l = "accel" THEN AccelFrames ELSE DriveFrames

TxnsOf(l) == {t \in [cmd : {"duty", "alive", "read", "brake", "steer", "gear", "angles"},
                     arg : {"zero", "positive", "stop", "apply", "release", "turn", "D", "N", ""},
                     age : 0 .. Reply + 1, marks : SUBSET Marks] :
                 [cmd |-> t.cmd, arg |-> t.arg] \in FramesOf(l)}

Fields == {"up", "broken", "wire", "pending", "heard", "ticked", "alive", "duty", "acked",
           "latestAcked", "timeouts", "trips", "announced", "boardTripped", "applied", "moving",
           "moveDir", "moveAge", "stopApply", "steer", "gear", "at", "readAge", "hb", "stopped",
           "faulted", "whole"}

Ports(k) ==
    /\ k.broken \subseteq Links /\ k.up \in [Links -> BOOLEAN]
    /\ DOMAIN k.wire = Links /\ DOMAIN k.pending = Links
    /\ \A l \in Links : k.wire[l] \in Seq(FramesOf(l)) /\ k.pending[l] \in Seq(TxnsOf(l))

Scalars(k) ==
    /\ k.duty \in Duties /\ k.acked \in Duties
    /\ k.timeouts \in Nat \cup {Never} /\ k.trips \in Nat \cup {Never}
    /\ k.moveDir \in {"none", "apply", "release"} /\ k.moveAge \in 0 .. Stroke + 1
    /\ k.stopApply \in {Never} \cup 0 .. Stroke + 1
    /\ k.steer \in {"stop", "turn"} /\ k.gear \in {"D", "N", "unknown"}
    /\ k.at \in Places /\ k.readAge \in 0 .. MaxAge + 1 /\ k.hb \in 0 .. Horizon

Typed(k) == DOMAIN k = Fields /\ Ports(k) /\ Scalars(k)

\* What nothing but a write, a mark or the board changes.
LEMMA ScalarsKept ==
  ASSUME NEW k, Scalars(k), NEW d, 
         \A x \in Fields \ {"up", "faulted", "wire", "pending"} : d[x] = k[x]
  PROVE  Scalars(d)
BY DEF Scalars, Fields

------------------------------------------------------------------------------
(* What a step adds to a wire.                                                *)

\* w is v with frames of F after it.
Extends(v, w, F) ==
    /\ Len(v) <= Len(w)
    /\ \A i \in 1 .. Len(v) : w[i] = v[i]
    /\ \A i \in Len(v) + 1 .. Len(w) : w[i] \in F

LEMMA ExtendsSelf ==
  ASSUME NEW S, NEW v \in Seq(S), NEW F
  PROVE  Extends(v, v, F)
BY DEF Extends

LEMMA ExtendsAppend ==
  ASSUME NEW S, NEW v \in Seq(S), NEW f \in S
  PROVE  Extends(v, Append(v, f), {f})
BY DEF Extends

LEMMA ExtendsTwice ==
  ASSUME NEW S, NEW u \in Seq(S), NEW v \in Seq(S), NEW w \in Seq(S), NEW F, NEW G, NEW H,
         Extends(u, v, F), Extends(v, w, G), F \subseteq H, G \subseteq H
  PROVE  Extends(u, w, H)
<1>1. Len(u) \in Nat /\ Len(v) \in Nat /\ Len(w) \in Nat /\ Len(u) <= Len(v) /\ Len(v) <= Len(w)
  BY DEF Extends
<1>2. \A i \in 1 .. Len(u) : w[i] = u[i]
  BY <1>1 DEF Extends
<1>3. ASSUME NEW i \in Len(u) + 1 .. Len(w) PROVE w[i] \in H
  <2>1. CASE i <= Len(v)
    BY <1>1, <2>1 DEF Extends
  <2>2. CASE i > Len(v)
    BY <1>1, <2>2 DEF Extends
  <2> QED
    BY <1>1, <2>1, <2>2
<1> QED
  BY <1>1, <1>2, <1>3 DEF Extends

\* A frame of a link, taken apart.
LEMMA FrameShape ==
  ASSUME NEW l \in Links, NEW f \in FramesOf(l)
  PROVE  /\ f = [cmd |-> f.cmd, arg |-> f.arg]
         /\ f.cmd \in {"duty", "alive", "read", "brake", "steer", "gear", "angles"}
         /\ f.arg \in {"zero", "positive", "stop", "apply", "release", "turn", "D", "N", ""}
<1>1. CASE l = "accel"
  BY <1>1 DEF FramesOf, AccelFrames, Duties
<1>2. CASE l = "drive"
  BY <1>2 DEF FramesOf, DriveFrames
<1> QED
  BY <1>1, <1>2 DEF Links

------------------------------------------------------------------------------
(* Writing.                                                                   *)

\* What a write leaves alone.
Unwritten == Fields \ {"up", "faulted", "wire", "pending"}

Frame(cmd, arg) == [cmd |-> cmd, arg |-> arg]

\* d is k after f was written to l: it went out, or the port was found broken, or
\* there was nothing to write to.
Wrote(k, d, l, f) ==
    /\ Typed(d)
    /\ \A x \in Unwritten : d[x] = k[x]
    /\ \A m \in Links : Extends(k.wire[m], d.wire[m], IF m = l THEN {f} ELSE {})
    /\ d.faulted = k.faulted \/ (k.up[l] /\ ~d.up[l] /\ d.faulted = TRUE)
    /\ Goes(k, l) => d.up = k.up /\ d.faulted = k.faulted

LEMMA WriteInStopDoes ==
  ASSUME NEW k, Typed(k), NEW l \in Links, NEW cmd, NEW arg, Frame(cmd, arg) \in FramesOf(l),
         NEW marks \in SUBSET Marks
  PROVE  Wrote(k, WriteInStop(k, l, cmd, arg, marks), l, Frame(cmd, arg))
<1> DEFINE f == Frame(cmd, arg)
           d == WriteInStop(k, l, cmd, arg, marks)
           t == [cmd |-> cmd, arg |-> arg, age |-> 0, marks |-> marks]
<1>0. f.cmd = cmd /\ f.arg = arg /\ f \in FramesOf(l)
  BY DEF Frame
<1>1. t \in TxnsOf(l)
  <2>1. 0 \in 0 .. Reply + 1
    BY TimesAssumption
  <2>2. [cmd |-> t.cmd, arg |-> t.arg] \in FramesOf(l)
    BY DEF Frame
  <2> QED
    BY <1>0, <2>1, <2>2, FrameShape DEF TxnsOf
<1> SUFFICES Wrote(k, d, l, f)
  OBVIOUS
<1> HIDE DEF d, f, t
<1>2. /\ DOMAIN k = Fields /\ DOMAIN k.wire = Links /\ DOMAIN k.pending = Links /\ DOMAIN k.up = Links
      /\ \A m \in Links : k.wire[m] \in Seq(FramesOf(m)) /\ k.pending[m] \in Seq(TxnsOf(m)) /\ k.up[m] \in BOOLEAN
  BY DEF Typed, Ports
<1>3. \A m \in Links : Extends(k.wire[m], k.wire[m], IF m = l THEN {f} ELSE {})
  BY <1>2, ExtendsSelf
<1>4. CASE Goes(k, l)
  <2>1. d = [k EXCEPT !.wire[l] = Append(@, f), !.pending[l] = Append(@, t)]
    BY <1>4 DEF WriteInStop, Frame, d, f, t
  <2>2. /\ DOMAIN d = Fields
        /\ \A x \in Fields \ {"wire", "pending"} : d[x] = k[x]
    BY <1>2, <2>1
  <2>3. /\ d.wire = [k.wire EXCEPT ![l] = Append(@, f)]
        /\ d.pending = [k.pending EXCEPT ![l] = Append(@, t)]
    BY <1>2, <2>1 DEF Fields
  <2>4. /\ DOMAIN d.wire = Links /\ DOMAIN d.pending = Links
        /\ \A m \in Links : d.wire[m] \in Seq(FramesOf(m)) /\ d.pending[m] \in Seq(TxnsOf(m))
    BY <1>0, <1>1, <1>2, <2>3
  <2>5. Typed(d)
    <3>1. Ports(d)
      BY <2>2, <2>4 DEF Typed, Ports, Fields
    <3> QED
      BY <2>2, <3>1, ScalarsKept DEF Typed
  <2>6. \A m \in Links : Extends(k.wire[m], d.wire[m], IF m = l THEN {f} ELSE {})
    <3>1. Extends(k.wire[l], d.wire[l], {f})
      BY <1>0, <1>2, <2>3, ExtendsAppend
    <3>2. \A m \in Links \ {l} : d.wire[m] = k.wire[m]
      BY <1>2, <2>3
    <3> QED
      BY <1>3, <3>1, <3>2
  <2>7. d.up = k.up /\ d.faulted = k.faulted
    BY <2>2 DEF Fields
  <2> QED
    BY <2>2, <2>5, <2>6, <2>7 DEF Wrote, Unwritten
<1>5. CASE ~Goes(k, l) /\ k.up[l]
  <2>1. d = [k EXCEPT !.up[l] = FALSE, !.faulted = TRUE]
    BY <1>5 DEF WriteInStop, d
  <2>2. /\ DOMAIN d = Fields
        /\ \A x \in Fields \ {"up", "faulted"} : d[x] = k[x]
    BY <1>2, <2>1
  <2>3. d.up = [k.up EXCEPT ![l] = FALSE] /\ d.faulted = TRUE
    BY <1>2, <2>1 DEF Fields
  <2>4. d.up \in [Links -> BOOLEAN] /\ ~d.up[l]
    BY <2>3 DEF Typed, Ports
  <2>5. Typed(d)
    <3>1. Ports(d)
      BY <2>2, <2>4 DEF Typed, Ports, Fields
    <3> QED
      BY <2>2, <3>1, ScalarsKept DEF Typed
  <2> QED
    BY <1>3, <1>5, <2>2, <2>3, <2>4, <2>5 DEF Wrote, Unwritten, Fields
<1>6. CASE ~Goes(k, l) /\ ~k.up[l]
  <2>1. d = k
    BY <1>6 DEF WriteInStop, d
  <2> QED
    BY <1>3, <1>6, <2>1 DEF Wrote
<1> QED
  BY <1>4, <1>5, <1>6

\* d is k with a mark taken off.
Marked(k, d) == Typed(d) /\ \A x \in Fields \ {"pending"} : d[x] = k[x]

LEMMA UnmarkedDoes ==
  ASSUME NEW k, Typed(k), NEW mark
  PROVE  Marked(k, Unmarked(k, mark))
<1> DEFINE d == Unmarked(k, mark)
<1>1. /\ DOMAIN k = Fields /\ DOMAIN k.pending = Links
      /\ \A m \in Links : k.pending[m] \in Seq(TxnsOf(m))
  BY DEF Typed, Ports
<1>2. d = [k EXCEPT !.pending = [l \in Links |->
             [i \in DOMAIN k.pending[l] |-> [k.pending[l][i] EXCEPT !.marks = @ \ {mark}]]]]
  BY DEF Unmarked
<1> HIDE DEF d
<1>3. DOMAIN d = Fields /\ \A x \in Fields \ {"pending"} : d[x] = k[x]
  BY <1>1, <1>2
<1>4. d.pending = [l \in Links |-> [i \in DOMAIN k.pending[l] |-> [k.pending[l][i] EXCEPT !.marks = @ \ {mark}]]]
  BY <1>1, <1>2 DEF Fields
<1>5. ASSUME NEW l \in Links PROVE d.pending[l] \in Seq(TxnsOf(l))
  <2> DEFINE p == k.pending[l]
             q == d.pending[l]
  <2>1. p \in Seq(TxnsOf(l)) /\ DOMAIN p = 1 .. Len(p) /\ Len(p) \in Nat
    BY <1>1
  <2>2. q = [i \in 1 .. Len(p) |-> [p[i] EXCEPT !.marks = @ \ {mark}]]
    BY <1>4, <2>1
  <2>3. \A i \in 1 .. Len(p) : p[i] \in TxnsOf(l)
    BY <2>1
  <2>4. \A t \in TxnsOf(l) : [t EXCEPT !.marks = @ \ {mark}] \in TxnsOf(l)
    BY DEF TxnsOf
  <2> QED
    BY <2>1, <2>2, <2>3, <2>4
<1>6. Ports(d)
  BY <1>3, <1>4, <1>5 DEF Typed, Ports, Fields
<1> QED
  BY <1>3, <1>6, ScalarsKept DEF Typed, Marked, d

\* A duty frame went out, and counts as the latest if it did.
DutySent(k, d, duty) ==
    /\ Typed(d)
    /\ \A x \in Unwritten \ {"latestAcked"} : d[x] = k[x]
    /\ Extends(k.wire["accel"], d.wire["accel"], {Frame("duty", duty)})
    /\ d.wire["drive"] = k.wire["drive"]
    /\ d.faulted = k.faulted \/ (k.up["accel"] /\ ~d.up["accel"] /\ d.faulted = TRUE)
    /\ Goes(k, "accel") => d.up = k.up /\ d.faulted = k.faulted

LEMMA DutyInStopDoes ==
  ASSUME NEW k, Typed(k), NEW duty \in Duties, NEW marks \in SUBSET Marks
  PROVE  DutySent(k, DutyInStop(k, duty, marks), duty)
<1> DEFINE d == DutyInStop(k, duty, marks)
<1>1. Frame("duty", duty) \in FramesOf("accel") /\ "accel" \in Links
  BY DEF FramesOf, AccelFrames, Frame, Links
<1>2. CASE Goes(k, "accel")
  <2> DEFINE u == Unmarked(k, "latest")
             w == WriteInStop(u, "accel", "duty", duty, marks \cup {"latest"})
  <2>1. Marked(k, u)
    BY UnmarkedDoes
  <2>2. Typed(u) /\ u.up = k.up /\ u.wire = k.wire /\ u.faulted = k.faulted /\ Goes(u, "accel")
    BY <1>2, <2>1 DEF Fields, Goes, Marked
  <2>3. marks \cup {"latest"} \in SUBSET Marks
    BY DEF Marks
  <2>4. Wrote(u, w, "accel", Frame("duty", duty))
    BY <1>1, <2>2, <2>3, WriteInStopDoes
  <2>5. d = [w EXCEPT !.latestAcked = FALSE]
    BY <1>2 DEF DutyInStop
  <2>6. w.wire["drive"] = u.wire["drive"]
    BY <2>2 DEF WriteInStop, Typed, Ports, Fields, Links
  <2> HIDE DEF u, w, d
  <2>7. DOMAIN d = Fields /\ \A x \in Fields \ {"latestAcked"} : d[x] = w[x]
    BY <2>4, <2>5 DEF Typed, Wrote
  <2>8. Typed(d)
    BY <2>4, <2>7, ZenonT(40) DEF Typed, Ports, Scalars, Fields, Wrote
  <2>9. d.wire = w.wire /\ d.up = w.up /\ d.faulted = w.faulted
    BY <2>7 DEF Fields
  <2>10. \A x \in Unwritten \ {"latestAcked"} : d[x] = k[x]
    BY <2>1, <2>4, <2>7 DEF Unwritten, Wrote, Marked
  <2> QED
    BY <1>1, <2>2, <2>4, <2>6, <2>8, <2>9, <2>10 DEF DutySent, Wrote, d
<1>3. CASE ~Goes(k, "accel")
  <2>1. d = WriteInStop(k, "accel", "duty", duty, marks)
    BY <1>3 DEF DutyInStop
  <2>2. Wrote(k, WriteInStop(k, "accel", "duty", duty, marks), "accel", Frame("duty", duty))
    BY <1>1, WriteInStopDoes
  <2>3. WriteInStop(k, "accel", "duty", duty, marks).wire = k.wire
    BY <1>3 DEF WriteInStop, Typed, Fields
  <2> HIDE DEF d
  <2> QED
    BY <1>1, <1>3, <2>1, <2>2, <2>3 DEF DutySent, Wrote, d
<1> QED
  BY <1>2, <1>3

------------------------------------------------------------------------------
(* Stopping.                                                                  *)

ApplyFrame == Frame("brake", "apply")

\* What k may add to the drive module's wire: no brake apply within a stop's episode.
Allowed(k) == IF k.stopApply = Never THEN DriveFrames ELSE DriveFrames \ {ApplyFrame}

\* d comes from k by a step that writes to the throttle board no frames but those of
\* F, and ends no stop's episode.
Fair(k, d, F) ==
    /\ Typed(d) /\ d.hb = k.hb
    /\ k.stopApply # Never => d.stopApply # Never
    /\ Extends(k.wire["accel"], d.wire["accel"], F)

\* Neither does it start the brake within one.
Calm(k, d, F) == Fair(k, d, F) /\ Extends(k.wire["drive"], d.wire["drive"], Allowed(k))

Rested(k) == k.stopped = TRUE /\ k.duty = "zero" /\ k.steer = "stop"

LEMMA TypedWires ==
  ASSUME NEW k, Typed(k)
  PROVE  k.wire["accel"] \in Seq(AccelFrames) /\ k.wire["drive"] \in Seq(DriveFrames)
BY DEF Typed, Ports, FramesOf, Links

LEMMA FairTwice ==
  ASSUME NEW a, Typed(a), NEW b, NEW d, NEW F, NEW G, NEW H,
         Fair(a, b, F), Fair(b, d, G), F \subseteq H, G \subseteq H
  PROVE  Fair(a, d, H)
<1>1. /\ Typed(b) /\ Typed(d)
      /\ Extends(a.wire["accel"], b.wire["accel"], F) /\ Extends(b.wire["accel"], d.wire["accel"], G)
  BY DEF Fair
<1>2. /\ a.wire["accel"] \in Seq(AccelFrames) /\ b.wire["accel"] \in Seq(AccelFrames)
      /\ d.wire["accel"] \in Seq(AccelFrames)
  BY <1>1, TypedWires
<1>3. Extends(a.wire["accel"], d.wire["accel"], H)
  BY <1>1, <1>2, ExtendsTwice
<1> QED
  BY <1>1, <1>3 DEF Fair

LEMMA CalmTwice ==
  ASSUME NEW a, Typed(a), NEW b, NEW d, NEW F, NEW G, NEW H,
         Calm(a, b, F), Calm(b, d, G), F \subseteq H, G \subseteq H
  PROVE  Calm(a, d, H)
<1>1. Fair(a, b, F) /\ Fair(b, d, G) /\ Fair(a, d, H)
  BY FairTwice DEF Calm
<1>2. /\ a.wire["drive"] \in Seq(DriveFrames) /\ b.wire["drive"] \in Seq(DriveFrames)
      /\ d.wire["drive"] \in Seq(DriveFrames)
  BY <1>1, TypedWires DEF Fair
<1>3. Allowed(b) \subseteq Allowed(a)
  BY <1>1 DEF Fair, Allowed
<1>4. Extends(a.wire["drive"], b.wire["drive"], Allowed(a)) /\ Extends(b.wire["drive"], d.wire["drive"], Allowed(b))
  BY DEF Calm
<1>5. Extends(a.wire["drive"], d.wire["drive"], Allowed(a))
  BY <1>2, <1>3, <1>4, ExtendsTwice
<1> QED
  BY <1>1, <1>5 DEF Calm

\* A step that leaves the wires, the window and the episode alone is calm.
LEMMA CalmSelf ==
  ASSUME NEW k, Typed(k), NEW d, Typed(d), d.wire = k.wire, d.hb = k.hb,
         d.stopApply = k.stopApply, NEW F
  PROVE  Calm(k, d, F)
BY TypedWires, ExtendsSelf DEF Calm, Fair

\* d is k but for the fields of X.
Same(k, d, X) == DOMAIN d = Fields /\ \A x \in Fields \ X : d[x] = k[x]

LEMMA FramesFit ==
  /\ Frame("duty", "zero") \in FramesOf("accel") /\ Frame("duty", "positive") \in FramesOf("accel")
  /\ Frame("alive", "") \in FramesOf("accel") /\ Frame("read", "") \in FramesOf("accel")
  /\ \A b \in {"stop", "apply", "release"} : Frame("brake", b) \in FramesOf("drive")
  /\ \A b \in {"stop", "turn"} : Frame("steer", b) \in FramesOf("drive")
  /\ \A g \in {"D", "N"} : Frame("gear", g) \in FramesOf("drive")
  /\ Frame("alive", "") \in FramesOf("drive") /\ Frame("angles", "") \in FramesOf("drive")
BY DEF Frame, FramesOf, AccelFrames, DriveFrames, Duties

\* The stop leaves nothing commanded to move, and starts the brake once in its episode.
LEMMA SafeStopDoes ==
  ASSUME NEW k, Typed(k), NEW brake
  PROVE  Calm(k, SafeStop(k, brake), {Frame("duty", "zero")}) /\ Rested(SafeStop(k, brake))
<1> DEFINE u == Unmarked(Unmarked(k, "stop"), "release")
           reset == [u EXCEPT !.stopped = TRUE, !.steer = "stop", !.duty = "zero"]
           rest == DutyInStop(reset, "zero", {"stop"})
           onset == [rest EXCEPT !.applied = TRUE, !.moving = TRUE,
                                 !.stopApply = 0, !.moveDir = "apply", !.moveAge = 0]
           still == [rest EXCEPT !.moving = FALSE]
           braked == IF AppliesBrake(rest, brake)
                     THEN WriteInStop(onset, "drive", "brake", "apply", {"stop"})
                     ELSE IF LetsStrokeRun(rest, brake) THEN rest
                     ELSE WriteInStop(still, "drive", "brake", "stop", {"stop"})
           ended == WriteInStop(braked, "drive", "steer", "stop", {"stop"})
           d == SafeStop(k, brake)
<1>1. d = [ended EXCEPT !.whole = AllGo(k)]
  BY DEF SafeStop
<1>2. Marked(k, u)
  BY UnmarkedDoes DEF Marked
<1>3. DOMAIN reset = Fields /\ \A x \in Fields \ {"stopped", "steer", "duty"} : reset[x] = u[x]
  BY <1>2 DEF Marked, Typed
<1>4. reset.stopped = TRUE /\ reset.steer = "stop" /\ reset.duty = "zero"
  BY <1>2 DEF Marked, Typed, Fields
<1> HIDE DEF reset, u
<1>5. /\ Typed(reset) /\ reset.hb = k.hb /\ reset.stopApply = k.stopApply /\ reset.wire = k.wire
  <2>1. Typed(u) /\ \A x \in Fields \ {"pending", "stopped", "steer", "duty"} : reset[x] = k[x]
    BY <1>2, <1>3 DEF Marked
  <2>2. reset.pending = u.pending /\ reset.broken = u.broken /\ reset.up = u.up /\ reset.wire = u.wire
    BY <1>3 DEF Fields
  <2>3. Ports(reset)
    BY <2>1, <2>2 DEF Typed, Ports
  <2>4. Scalars(reset)
    BY <1>4, <2>1 DEF Typed, Scalars, Fields, Duties
  <2> QED
    BY <1>3, <2>1, <2>3, <2>4 DEF Typed, Fields
<1>6. "zero" \in Duties /\ {"stop"} \in SUBSET Marks
  BY DEF Duties, Marks
<1>7. DutySent(reset, rest, "zero")
  BY <1>5, <1>6, DutyInStopDoes
<1> HIDE DEF rest
<1>8. /\ Typed(rest) /\ Rested(rest) /\ rest.hb = k.hb /\ rest.stopApply = k.stopApply
      /\ rest.wire["drive"] = k.wire["drive"]
      /\ Extends(k.wire["accel"], rest.wire["accel"], {Frame("duty", "zero")})
  BY <1>4, <1>5, <1>7 DEF DutySent, Rested, Unwritten, Fields
<1>9. /\ Typed(braked) /\ Rested(braked) /\ braked.hb = k.hb
      /\ k.stopApply # Never => braked.stopApply # Never
      /\ braked.wire["accel"] = rest.wire["accel"]
      /\ Extends(k.wire["drive"], braked.wire["drive"], Allowed(k))
  <2>0. /\ "drive" \in Links /\ Frame("brake", "stop") \in FramesOf("drive")
        /\ Frame("brake", "apply") \in FramesOf("drive")
    BY FramesFit DEF Links
  <2>1. CASE AppliesBrake(rest, brake)
    <3>1. /\ Typed(onset) /\ Rested(onset) /\ onset.hb = k.hb /\ onset.stopApply = 0
          /\ onset.wire = rest.wire /\ k.stopApply = Never
      <4>1. k.stopApply = Never /\ 0 \in 0 .. Stroke + 1
        BY <1>8, <2>1, TimesAssumption DEF AppliesBrake
      <4>2. DOMAIN rest = Fields
        BY <1>8 DEF Typed
      <4>3. /\ DOMAIN onset = Fields
            /\ \A x \in Fields \ {"applied", "moving", "stopApply", "moveDir", "moveAge"} : onset[x] = rest[x]
            /\ onset.stopApply = 0 /\ onset.moveDir = "apply" /\ onset.moveAge = 0
        BY <4>2 DEF Fields
      <4> HIDE DEF onset
      <4>4. Ports(onset)
        BY <1>8, <4>3 DEF Typed, Ports, Fields
      <4>5. Scalars(onset)
        BY <1>8, <4>1, <4>3 DEF Typed, Scalars, Fields
      <4> QED
        BY <1>8, <4>1, <4>3, <4>4, <4>5 DEF Typed, Fields, Rested
    <3> HIDE DEF onset
    <3>2. Wrote(onset, WriteInStop(onset, "drive", "brake", "apply", {"stop"}), "drive", ApplyFrame)
      BY <1>6, <2>0, <3>1, WriteInStopDoes DEF ApplyFrame
    <3>3. braked = WriteInStop(onset, "drive", "brake", "apply", {"stop"})
      BY <2>1
    <3> HIDE DEF braked
    <3>4. /\ Typed(braked) /\ Rested(braked) /\ braked.hb = k.hb /\ braked.stopApply = 0
          /\ Extends(k.wire["drive"], braked.wire["drive"], {ApplyFrame})
      BY <1>8, <3>1, <3>2, <3>3 DEF Wrote, Unwritten, Fields, Rested, Links
    <3>5. braked.wire["accel"] = rest.wire["accel"]
      BY <3>1, <3>3 DEF WriteInStop, Typed, Ports, Fields, Links
    <3>6. ApplyFrame \in Allowed(k)
      BY <2>0, <3>1 DEF Allowed, ApplyFrame, FramesOf
    <3> QED
      BY <3>4, <3>5, <3>6 DEF Extends, Never
  <2>2. CASE ~AppliesBrake(rest, brake) /\ LetsStrokeRun(rest, brake)
    <3>1. braked = rest
      BY <2>2
    <3> HIDE DEF braked
    <3>2. Extends(k.wire["drive"], rest.wire["drive"], Allowed(k))
      BY <1>8, ExtendsSelf DEF Typed, Ports, Links
    <3> QED
      BY <1>8, <3>1, <3>2
  <2>3. CASE ~AppliesBrake(rest, brake) /\ ~LetsStrokeRun(rest, brake)
    <3>1. /\ Typed(still) /\ Rested(still) /\ still.hb = k.hb /\ still.stopApply = k.stopApply
          /\ still.wire = rest.wire
      BY <1>8 DEF Typed, Ports, Scalars, Fields, Rested
    <3> HIDE DEF still
    <3>2. Wrote(still, WriteInStop(still, "drive", "brake", "stop", {"stop"}), "drive", Frame("brake", "stop"))
      BY <1>6, <2>0, <3>1, WriteInStopDoes
    <3>3. braked = WriteInStop(still, "drive", "brake", "stop", {"stop"})
      BY <2>3
    <3> HIDE DEF braked
    <3>4. /\ Typed(braked) /\ Rested(braked) /\ braked.hb = k.hb /\ braked.stopApply = k.stopApply
          /\ Extends(k.wire["drive"], braked.wire["drive"], {Frame("brake", "stop")})
      BY <1>8, <3>1, <3>2, <3>3 DEF Wrote, Unwritten, Fields, Rested, Links
    <3>5. braked.wire["accel"] = rest.wire["accel"]
      BY <3>1, <3>3 DEF WriteInStop, Typed, Ports, Fields, Links
    <3>6. Frame("brake", "stop") \in Allowed(k)
      BY <2>0 DEF Allowed, ApplyFrame, FramesOf, Frame
    <3> QED
      BY <3>4, <3>5, <3>6 DEF Extends, Never
  <2> QED
    BY <2>1, <2>2, <2>3
<1> HIDE DEF braked
<1>10. Wrote(braked, ended, "drive", Frame("steer", "stop"))
  BY <1>6, <1>9, FramesFit, WriteInStopDoes DEF Links
<1> HIDE DEF ended
<1>11. /\ Typed(d) /\ Rested(d) /\ d.hb = k.hb
       /\ k.stopApply # Never => d.stopApply # Never
       /\ d.wire = ended.wire
  <2> HIDE DEF d
  <2>1. DOMAIN d = Fields /\ \A x \in Fields \ {"whole"} : d[x] = ended[x]
    BY <1>1, <1>10 DEF Wrote, Typed
  <2>2. Typed(d)
    BY <1>10, <2>1, ZenonT(40) DEF Wrote, Typed, Ports, Scalars, Fields
  <2> QED
    BY <1>9, <1>10, <2>1, <2>2 DEF Wrote, Unwritten, Rested, Fields
<1>12. Extends(k.wire["accel"], d.wire["accel"], {Frame("duty", "zero")})
  <2>1. ended.wire["accel"] = braked.wire["accel"]
    BY <1>9 DEF ended, WriteInStop, Typed, Ports, Fields, Links
  <2> QED
    BY <1>8, <1>9, <1>11, <2>1
<1>13. Extends(k.wire["drive"], d.wire["drive"], Allowed(k))
  <2>1. Frame("steer", "stop") \in Allowed(k)
    BY FramesFit DEF Allowed, ApplyFrame, FramesOf, Frame
  <2>2. Extends(braked.wire["drive"], d.wire["drive"], {Frame("steer", "stop")})
    BY <1>10, <1>11 DEF Wrote, Links
  <2> HIDE DEF d
  <2> QED
    BY <1>9, <1>11, <2>1, <2>2, ExtendsTwice DEF Typed, Ports, Links
<1> QED
  BY <1>11, <1>12, <1>13 DEF Calm, Fair

\* What a step may touch and be calm whatever it does there.
Loose == Fields \ {"up", "broken", "wire", "pending", "hb", "stopApply"}

LEMMA TouchedIsCalm ==
  ASSUME NEW k, Typed(k), NEW X \in SUBSET Loose, NEW d, Same(k, d, X), Scalars(d)
  PROVE  /\ Typed(d) /\ d.wire = k.wire /\ d.hb = k.hb /\ d.stopApply = k.stopApply
         /\ \A F : Calm(k, d, F)
<1>1. d.up = k.up /\ d.broken = k.broken /\ d.wire = k.wire /\ d.pending = k.pending
  BY DEF Same, Loose, Fields
<1>2. d.hb = k.hb /\ d.stopApply = k.stopApply
  BY DEF Same, Loose, Fields
<1>3. Ports(d)
  BY <1>1 DEF Typed, Ports
<1>4. Typed(d)
  BY <1>3 DEF Typed, Same
<1> QED
  BY <1>1, <1>2, <1>4, CalmSelf

\* A fault stops the vehicle, whatever it was doing.
LEMMA FaultDoes ==
  ASSUME NEW k, Typed(k), NEW brake
  PROVE  Calm(k, Fault(k, brake), {Frame("duty", "zero")}) /\ Rested(Fault(k, brake))
<1> DEFINE u == [k EXCEPT !.faulted = TRUE, !.boardTripped = @ \/ ~brake]
           d == SafeStop(u, brake)
<1>1. Same(k, u, {"faulted", "boardTripped"})
  BY DEF Same, Typed
<1> HIDE DEF u
<1>2. Typed(u) /\ u.wire = k.wire /\ u.hb = k.hb /\ u.stopApply = k.stopApply
  BY <1>1 DEF Same, Typed, Ports, Scalars, Fields
<1>3. Calm(u, d, {Frame("duty", "zero")}) /\ Rested(d)
  BY <1>2, SafeStopDoes
<1>4. Calm(k, u, {})
  BY <1>2, CalmSelf
<1> HIDE DEF d
<1>5. Calm(k, d, {Frame("duty", "zero")})
  BY <1>3, <1>4, CalmTwice
<1> QED
  BY <1>3, <1>5 DEF Fault, u, d

\* What a frame may change that is not among X, unless the vehicle stops over it.
Settled(k, d, X) == Rested(d) \/ \A x \in (Unwritten \cup {"faulted"}) \ X : d[x] = k[x]

LEMMA WriteDoes ==
  ASSUME NEW k, Typed(k), NEW l \in Links, NEW cmd, NEW arg, Frame(cmd, arg) \in FramesOf(l),
         NEW marks \in SUBSET Marks
  PROVE  /\ Fair(k, Write(k, l, cmd, arg, marks),
                 {Frame("duty", "zero")} \cup IF l = "accel" THEN {Frame(cmd, arg)} ELSE {})
         /\ Frame(cmd, arg) \in Allowed(k) \/ l = "accel" =>
              Calm(k, Write(k, l, cmd, arg, marks),
                   {Frame("duty", "zero")} \cup IF l = "accel" THEN {Frame(cmd, arg)} ELSE {})
         /\ Settled(k, Write(k, l, cmd, arg, marks), {})
<1> DEFINE f == Frame(cmd, arg)
           w == WriteInStop(k, l, cmd, arg, marks)
           d == Write(k, l, cmd, arg, marks)
           F == IF l = "accel" THEN {f} ELSE {}
           H == {Frame("duty", "zero")} \cup F
<1>1. Wrote(k, w, l, f)
  BY WriteInStopDoes
<1>2. d = IF k.up[l] /\ ~w.up[l] THEN SafeStop(w, TRUE) ELSE w
  BY DEF Write
<1> SUFFICES Fair(k, d, H) /\ (f \in Allowed(k) \/ l = "accel" => Calm(k, d, H)) /\ Settled(k, d, {})
  OBVIOUS
<1> HIDE DEF w, d, f
<1>3. /\ Typed(w) /\ w.hb = k.hb /\ w.stopApply = k.stopApply
      /\ Extends(k.wire["accel"], w.wire["accel"], F)
      /\ Extends(k.wire["drive"], w.wire["drive"], IF l = "drive" THEN {f} ELSE {})
  BY <1>1 DEF Wrote, Unwritten, Fields, Links
<1>4. Fair(k, w, F)
  BY <1>3 DEF Fair
<1>5. f \in Allowed(k) \/ l = "accel" => Calm(k, w, F)
  <2>1. f \in Allowed(k) \/ l = "accel" => Extends(k.wire["drive"], w.wire["drive"], Allowed(k))
    BY <1>3 DEF Extends
  <2> QED
    BY <1>4, <2>1 DEF Calm
<1>6. CASE k.up[l] /\ ~w.up[l]
  <2>1. d = SafeStop(w, TRUE)
    BY <1>2, <1>6
  <2>2. Calm(w, d, {Frame("duty", "zero")}) /\ Rested(d)
    BY <1>3, <2>1, SafeStopDoes
  <2>3. Fair(k, d, H)
    BY <1>4, <2>2, FairTwice DEF Calm
  <2>4. f \in Allowed(k) \/ l = "accel" => Calm(k, d, H)
    BY <1>5, <2>2, CalmTwice
  <2> QED
    BY <2>2, <2>3, <2>4 DEF Settled
<1>7. CASE ~(k.up[l] /\ ~w.up[l])
  <2>1. d = w
    BY <1>2, <1>7
  <2>2. Fair(k, d, H)
    BY <1>4, <2>1 DEF Fair, Extends
  <2>3. f \in Allowed(k) \/ l = "accel" => Calm(k, d, H)
    BY <1>5, <2>1, <2>2 DEF Calm
  <2>4. Settled(k, d, {})
    BY <1>1, <1>7, <2>1 DEF Settled, Wrote
  <2> QED
    BY <2>2, <2>3, <2>4
<1> QED
  BY <1>6, <1>7

LEMMA WriteDutyDoes ==
  ASSUME NEW k, Typed(k), NEW duty \in Duties
  PROVE  /\ Calm(k, WriteDuty(k, duty), {Frame("duty", "zero"), Frame("duty", duty)})
         /\ Settled(k, WriteDuty(k, duty), {"latestAcked"})
<1> DEFINE w == DutyInStop(k, duty, {})
           d == WriteDuty(k, duty)
           H == {Frame("duty", "zero"), Frame("duty", duty)}
<1>1. DutySent(k, w, duty)
  BY DutyInStopDoes
<1>2. d = IF k.up["accel"] /\ ~w.up["accel"] THEN SafeStop(w, TRUE) ELSE w
  BY DEF WriteDuty
<1> SUFFICES Calm(k, d, H) /\ Settled(k, d, {"latestAcked"})
  OBVIOUS
<1> HIDE DEF w, d
<1>3. /\ Typed(w) /\ w.hb = k.hb /\ w.stopApply = k.stopApply
      /\ w.wire["drive"] = k.wire["drive"]
      /\ Extends(k.wire["accel"], w.wire["accel"], {Frame("duty", duty)})
  BY <1>1 DEF DutySent, Unwritten, Fields
<1>4. Calm(k, w, {Frame("duty", duty)})
  BY <1>3, TypedWires, ExtendsSelf DEF Calm, Fair
<1>5. CASE k.up["accel"] /\ ~w.up["accel"]
  <2>1. d = SafeStop(w, TRUE)
    BY <1>2, <1>5
  <2>2. Calm(w, d, {Frame("duty", "zero")}) /\ Rested(d)
    BY <1>3, <2>1, SafeStopDoes
  <2> QED
    BY <1>4, <2>2, CalmTwice DEF Settled
<1>6. CASE ~(k.up["accel"] /\ ~w.up["accel"])
  <2>1. d = w
    BY <1>2, <1>6
  <2>2. Calm(k, d, H)
    BY <1>4, <2>1 DEF Calm, Fair, Extends
  <2>3. Settled(k, d, {"latestAcked"})
    BY <1>1, <1>6, <2>1 DEF Settled, DutySent
  <2> QED
    BY <2>2, <2>3
<1> QED
  BY <1>5, <1>6

------------------------------------------------------------------------------
(* Commands.                                                                  *)

\* FaultIsStopped, of any controls.
Sound(k) ==
    /\ k.faulted \/ k.boardTripped => k.stopped
    /\ k.stopped => k.duty = "zero" /\ k.steer = "stop"

LEMMA SoundSettled ==
  ASSUME NEW k, Sound(k), NEW d, Settled(k, d, {"latestAcked"}) \/ Settled(k, d, {})
  PROVE  Sound(d)
<1>1. CASE Rested(d)
  BY <1>1 DEF Sound, Rested
<1>2. CASE ~Rested(d)
  <2>1. /\ d.faulted = k.faulted /\ d.boardTripped = k.boardTripped /\ d.stopped = k.stopped
        /\ d.duty = k.duty /\ d.steer = k.steer
    BY <1>2 DEF Settled, Unwritten, Fields
  <2> QED
    BY <2>1 DEF Sound
<1> QED
  BY <1>1, <1>2

Zero == Frame("duty", "zero")

LEMMA SetThrottleDoes ==
  ASSUME NEW k, Typed(k), Sound(k), NEW duty \in Duties, duty = "positive" => ~k.stopped
  PROVE  Calm(k, SetThrottle(k, duty), {Zero, Frame("duty", duty)}) /\ Sound(SetThrottle(k, duty))
<1> DEFINE u == [k EXCEPT !.duty = duty]
           d == WriteDuty(u, duty)
<1>1. Same(k, u, {"duty"}) /\ u.duty = duty
  BY DEF Same, Typed, Fields
<1> HIDE DEF u
<1>2. Typed(u) /\ u.wire = k.wire /\ u.hb = k.hb /\ u.stopApply = k.stopApply /\ Sound(u)
  BY <1>1 DEF Same, Typed, Ports, Scalars, Fields, Sound, Duties
<1>3. Calm(u, d, {Zero, Frame("duty", duty)}) /\ Settled(u, d, {"latestAcked"})
  BY <1>2, WriteDutyDoes DEF Zero
<1>4. Calm(k, u, {})
  BY <1>2, CalmSelf
<1> HIDE DEF d
<1>5. Calm(k, d, {Zero, Frame("duty", duty)}) /\ Sound(d)
  BY <1>2, <1>3, <1>4, CalmTwice, SoundSettled
<1> QED
  BY <1>5 DEF SetThrottle, u, d

\* Only the operator's own apply may start the brake within a stop's episode.
LEMMA ApplyBrakeDoes ==
  ASSUME NEW k, Typed(k), Sound(k)
  PROVE  Fair(k, ApplyBrake(k), {Zero}) /\ Sound(ApplyBrake(k))
<1> DEFINE u == Unmarked(k, "release")
           v == [u EXCEPT !.applied = TRUE, !.duty = "zero"]
           w == WriteDuty(v, "zero")
           x == [w EXCEPT !.moving = TRUE, !.moveDir = "apply", !.moveAge = 0]
           d == Write(x, "drive", "brake", "apply", {})
<1>1. d = ApplyBrake(k)
  BY DEF ApplyBrake
<1>2. Marked(k, u)
  BY UnmarkedDoes
<1>3. Same(u, v, {"applied", "duty"}) /\ v.duty = "zero"
  BY <1>2 DEF Same, Typed, Fields, Marked
<1> HIDE DEF u, v
<1>4. Typed(v) /\ v.wire = k.wire /\ v.hb = k.hb /\ v.stopApply = k.stopApply /\ Sound(v)
  <2>1. Typed(v) /\ v.wire = u.wire /\ v.hb = u.hb /\ v.stopApply = u.stopApply
    <3>1. Scalars(v)
      BY <1>2, <1>3 DEF Marked, Same, Typed, Scalars, Fields, Duties
    <3>2. {"applied", "duty"} \in SUBSET Loose
      BY DEF Loose, Fields
    <3> QED
      BY <1>2, <1>3, <3>1, <3>2, TouchedIsCalm DEF Marked
  <2>2. u.wire = k.wire /\ u.hb = k.hb /\ u.stopApply = k.stopApply /\ Sound(u)
    BY <1>2 DEF Marked, Fields, Sound
  <2> QED
    BY <1>3, <2>1, <2>2 DEF Same, Fields, Sound
<1>5. Calm(v, w, {Zero}) /\ Settled(v, w, {"latestAcked"})
  BY <1>4, WriteDutyDoes DEF Zero, Duties
<1>6. Calm(k, v, {})
  BY <1>4, CalmSelf
<1> HIDE DEF w
<1>7. Calm(k, w, {Zero}) /\ Typed(w) /\ Sound(w)
  BY <1>4, <1>5, <1>6, CalmTwice, SoundSettled DEF Calm, Fair
<1>8. Same(w, x, {"moving", "moveDir", "moveAge"}) /\ x.moveDir = "apply" /\ x.moveAge = 0
  BY <1>7 DEF Same, Typed, Fields
<1> HIDE DEF x
<1>9. Typed(x) /\ Calm(w, x, {}) /\ Sound(x)
  <2>1. 0 \in 0 .. Stroke + 1
    BY TimesAssumption
  <2>2. Scalars(x)
    BY <1>7, <1>8, <2>1 DEF Same, Typed, Scalars, Fields
  <2>3. {"moving", "moveDir", "moveAge"} \in SUBSET Loose
    BY DEF Loose, Fields
  <2>4. Sound(x)
    BY <1>7, <1>8 DEF Same, Fields, Sound
  <2> QED
    BY <1>7, <1>8, <2>2, <2>3, <2>4, TouchedIsCalm
<1>10. Fair(x, d, {Zero}) /\ Settled(x, d, {})
  <2>1. Frame("brake", "apply") \in FramesOf("drive") /\ "drive" \in Links /\ "drive" # "accel"
    BY FramesFit DEF Links
  <2>2. Fair(x, d, {Zero} \cup IF "drive" = "accel" THEN {Frame("brake", "apply")} ELSE {}) /\ Settled(x, d, {})
    BY <1>9, <2>1, WriteDoes DEF Zero
  <2> QED
    BY <2>1, <2>2 DEF Fair, Extends
<1> HIDE DEF d
<1>11. Fair(k, x, {Zero})
  BY <1>7, <1>9, FairTwice DEF Calm
<1>12. Fair(k, d, {Zero}) /\ Sound(d)
  BY <1>9, <1>10, <1>11, FairTwice, SoundSettled
<1> QED
  BY <1>1, <1>12

\* A frame to the drive module that is no brake apply.
LEMMA DriveWriteDoes ==
  ASSUME NEW k, Typed(k), NEW cmd, NEW arg, Frame(cmd, arg) \in FramesOf("drive"),
         Frame(cmd, arg) # ApplyFrame, NEW marks \in SUBSET Marks
  PROVE  /\ Calm(k, Write(k, "drive", cmd, arg, marks), {Zero})
         /\ Settled(k, Write(k, "drive", cmd, arg, marks), {})
<1>1. "drive" \in Links /\ "drive" # "accel" /\ Frame(cmd, arg) \in Allowed(k)
  BY DEF Links, Allowed, FramesOf
<1>2. /\ Calm(k, Write(k, "drive", cmd, arg, marks),
              {Zero} \cup IF "drive" = "accel" THEN {Frame(cmd, arg)} ELSE {})
      /\ Settled(k, Write(k, "drive", cmd, arg, marks), {})
  BY <1>1, WriteDoes DEF Zero
<1>3. {Zero} \cup (IF "drive" = "accel" THEN {Frame(cmd, arg)} ELSE {}) = {Zero}
  OBVIOUS
<1> QED
  BY <1>2, <1>3

LEMMA ReleaseBrakeDoes ==
  ASSUME NEW k, Typed(k), Sound(k)
  PROVE  Calm(k, ReleaseBrake(k), {Zero}) /\ Sound(ReleaseBrake(k))
<1> DEFINE u == Unmarked(k, "release")
           x == [u EXCEPT !.moving = TRUE, !.moveDir = "release", !.moveAge = 0]
           d == Write(x, "drive", "brake", "release", {"release"})
<1>1. d = ReleaseBrake(k)
  BY DEF ReleaseBrake
<1>2. Marked(k, u)
  BY UnmarkedDoes
<1>3. Same(u, x, {"moving", "moveDir", "moveAge"}) /\ x.moveDir = "release" /\ x.moveAge = 0
  BY <1>2 DEF Same, Typed, Fields, Marked
<1> HIDE DEF u, x
<1>4. Calm(k, u, {}) /\ Typed(u) /\ Sound(u)
  <2>1. u.wire = k.wire /\ u.hb = k.hb /\ u.stopApply = k.stopApply /\ Sound(u)
    BY <1>2 DEF Marked, Fields, Sound
  <2> QED
    BY <1>2, <2>1, CalmSelf DEF Marked
<1>5. Typed(x) /\ Calm(u, x, {}) /\ Sound(x)
  <2>1. 0 \in 0 .. Stroke + 1
    BY TimesAssumption
  <2>2. Scalars(x)
    BY <1>4, <1>3, <2>1 DEF Same, Typed, Scalars, Fields
  <2>3. {"moving", "moveDir", "moveAge"} \in SUBSET Loose
    BY DEF Loose, Fields
  <2>4. Sound(x)
    BY <1>4, <1>3 DEF Same, Fields, Sound
  <2> QED
    BY <1>4, <1>3, <2>2, <2>3, <2>4, TouchedIsCalm
<1>6. Calm(x, d, {Zero}) /\ Settled(x, d, {})
  <2>1. Frame("brake", "release") # ApplyFrame /\ {"release"} \in SUBSET Marks
    BY DEF Frame, ApplyFrame, Marks
  <2> QED
    BY <1>5, <2>1, FramesFit, DriveWriteDoes
<1> HIDE DEF d
<1>7. Calm(k, d, {Zero}) /\ Sound(d)
  <2>1. Calm(k, x, {})
    BY <1>4, <1>5, CalmTwice
  <2> QED
    BY <1>5, <1>6, <2>1, CalmTwice, SoundSettled
<1> QED
  BY <1>1, <1>7

LEMMA SteerDoes ==
  ASSUME NEW k, Typed(k), Sound(k), NEW dir \in {"stop", "turn"}, dir = "turn" => ~k.stopped
  PROVE  Calm(k, Steer(k, dir), {Zero}) /\ Sound(Steer(k, dir))
<1> DEFINE x == [k EXCEPT !.steer = dir]
           d == Write(x, "drive", "steer", dir, {})
<1>1. d = Steer(k, dir)
  BY DEF Steer
<1>2. Same(k, x, {"steer"}) /\ x.steer = dir
  BY DEF Same, Typed, Fields
<1> HIDE DEF x
<1>3. Typed(x) /\ Calm(k, x, {}) /\ Sound(x)
  <2>1. Scalars(x)
    BY <1>2 DEF Same, Typed, Scalars, Fields
  <2>2. {"steer"} \in SUBSET Loose
    BY DEF Loose, Fields
  <2>3. Sound(x)
    BY <1>2 DEF Same, Fields, Sound
  <2> QED
    BY <1>2, <2>1, <2>2, <2>3, TouchedIsCalm
<1>4. Calm(x, d, {Zero}) /\ Settled(x, d, {})
  <2>1. Frame("steer", dir) # ApplyFrame /\ Frame("steer", dir) \in FramesOf("drive") /\ {} \in SUBSET Marks
    BY FramesFit DEF Frame, ApplyFrame
  <2> QED
    BY <1>3, <2>1, DriveWriteDoes
<1> HIDE DEF d
<1>5. Calm(k, d, {Zero}) /\ Sound(d)
  BY <1>3, <1>4, CalmTwice, SoundSettled
<1> QED
  BY <1>1, <1>5

LEMMA GearDoes ==
  ASSUME NEW k, Typed(k), Sound(k), NEW g \in {"D", "N"}
  PROVE  Calm(k, Gear(k, g), {Zero}) /\ Sound(Gear(k, g))
<1>1. Frame("gear", g) # ApplyFrame /\ Frame("gear", g) \in FramesOf("drive") /\ {} \in SUBSET Marks
  BY FramesFit DEF Frame, ApplyFrame
<1> QED
  BY <1>1, DriveWriteDoes, SoundSettled DEF Gear

\* The latch goes: nothing but the window and the throttle board's wire is kept.
Plain(k, d, F) == Typed(d) /\ d.hb = k.hb /\ Extends(k.wire["accel"], d.wire["accel"], F)

LEMMA UnlatchedDoes ==
  ASSUME NEW k, Typed(k), Sound(k) \/ Rested(k), ~k.faulted, ~k.boardTripped
  PROVE  Plain(k, Unlatched(k), {Zero}) /\ Sound(Unlatched(k))
<1> DEFINE m == Unmarked(k, "stop")
           u == [m EXCEPT !.stopped = FALSE, !.whole = TRUE, !.stopApply = Never]
           v == [u EXCEPT !.moving = FALSE]
           d == Unlatched(k)
<1>1. d = IF u.moving THEN Write(v, "drive", "brake", "stop", {}) ELSE u
  BY DEF Unlatched
<1> SUFFICES Plain(k, d, {Zero}) /\ Sound(d)
  OBVIOUS
<1> HIDE DEF d
<1>2. Marked(k, m)
  BY UnmarkedDoes
<1>3. Same(m, u, {"stopped", "whole", "stopApply"}) /\ u.stopped = FALSE /\ u.stopApply = Never
  BY <1>2 DEF Same, Typed, Fields, Marked
<1> HIDE DEF m, u
<1>4. /\ Typed(u) /\ u.wire = k.wire /\ u.hb = k.hb /\ ~u.faulted /\ ~u.boardTripped
  <2>1. Typed(m) /\ m.wire = k.wire /\ m.hb = k.hb /\ ~m.faulted /\ ~m.boardTripped
    BY <1>2 DEF Marked, Fields
  <2>2. Ports(u)
    BY <1>3, <2>1 DEF Same, Typed, Ports, Fields
  <2>3. Scalars(u)
    BY <1>3, <2>1 DEF Same, Typed, Scalars, Fields
  <2> QED
    BY <1>3, <2>1, <2>2, <2>3 DEF Same, Typed, Fields
<1>5. Plain(k, u, {Zero}) /\ Sound(u)
  BY <1>3, <1>4, TypedWires, ExtendsSelf DEF Plain, Sound
<1>6. CASE u.moving
  <2>1. Same(u, v, {"moving"})
    BY <1>4 DEF Same, Typed, Fields
  <2> DEFINE w == Write(v, "drive", "brake", "stop", {})
  <2> HIDE DEF v
  <2>2. Scalars(v) /\ {"moving"} \in SUBSET Loose /\ Sound(v)
    BY <1>4, <1>5, <2>1 DEF Same, Typed, Scalars, Fields, Loose, Sound
  <2>3. Typed(v) /\ v.wire = k.wire /\ v.hb = k.hb
    BY <1>4, <2>1, <2>2, TouchedIsCalm
  <2>4. Frame("brake", "stop") # ApplyFrame /\ {} \in SUBSET Marks
    BY DEF Frame, ApplyFrame
  <2>5. Calm(v, w, {Zero}) /\ Settled(v, w, {})
    BY <2>3, <2>4, FramesFit, DriveWriteDoes
  <2>6. d = w
    BY <1>1, <1>6
  <2> HIDE DEF w
  <2> QED
    BY <2>2, <2>3, <2>5, <2>6, SoundSettled DEF Calm, Fair, Plain
<1>7. CASE ~u.moving
  <2>1. d = u
    BY <1>1, <1>7
  <2> QED
    BY <1>5, <2>1
<1> QED
  BY <1>6, <1>7

LEMMA ClearFaultsDoes ==
  ASSUME NEW k, Typed(k), Sound(k)
  PROVE  Plain(k, ClearFaults(k), {Zero}) /\ Sound(ClearFaults(k))
<1> DEFINE u == [k EXCEPT !.faulted = FALSE, !.boardTripped = FALSE]
           v == Unlatched(u)
           w == [v EXCEPT !.alive = FALSE]
           d == WriteDuty(w, "zero")
<1>1. d = ClearFaults(k)
  BY DEF ClearFaults
<1>2. Same(k, u, {"faulted", "boardTripped"}) /\ ~u.faulted /\ ~u.boardTripped
  BY DEF Same, Typed, Fields
<1> HIDE DEF u
<1>3. Typed(u) /\ u.wire = k.wire /\ u.hb = k.hb /\ Sound(u)
  <2>1. Scalars(u) /\ {"faulted", "boardTripped"} \in SUBSET Loose /\ Sound(u)
    BY <1>2 DEF Same, Typed, Scalars, Fields, Loose, Sound
  <2> QED
    BY <1>2, <2>1, TouchedIsCalm
<1>4. Plain(u, v, {Zero}) /\ Sound(v)
  BY <1>2, <1>3, UnlatchedDoes
<1>5. Typed(v)
  BY <1>4 DEF Plain
<1>6. Same(v, w, {"alive"})
  BY <1>5 DEF Same, Typed
<1> HIDE DEF v, w
<1>7. Typed(w) /\ w.wire = v.wire /\ w.hb = v.hb /\ Sound(w)
  <2>1. Scalars(w) /\ {"alive"} \in SUBSET Loose /\ Sound(w)
    BY <1>4, <1>5, <1>6 DEF Same, Typed, Scalars, Fields, Loose, Sound
  <2> QED
    BY <1>5, <1>6, <2>1, TouchedIsCalm
<1>8. Calm(w, d, {Zero}) /\ Settled(w, d, {"latestAcked"})
  BY <1>7, WriteDutyDoes DEF Zero, Duties
<1> HIDE DEF d
<1>9. Extends(k.wire["accel"], d.wire["accel"], {Zero})
  <2>1. Extends(k.wire["accel"], v.wire["accel"], {Zero}) /\ Extends(v.wire["accel"], d.wire["accel"], {Zero})
    BY <1>3, <1>4, <1>7, <1>8 DEF Plain, Calm, Fair
  <2>2. Typed(d)
    BY <1>8 DEF Calm, Fair
  <2>3. /\ k.wire["accel"] \in Seq(AccelFrames) /\ v.wire["accel"] \in Seq(AccelFrames)
        /\ d.wire["accel"] \in Seq(AccelFrames)
    BY <1>5, <2>2, TypedWires
  <2> QED
    BY <2>1, <2>3, ExtendsTwice
<1>10. Sound(d) /\ Typed(d) /\ d.hb = k.hb
  BY <1>3, <1>4, <1>7, <1>8, SoundSettled DEF Plain, Calm, Fair
<1> QED
  BY <1>1, <1>9, <1>10 DEF Plain

------------------------------------------------------------------------------
(* Replies.                                                                   *)

\* A line of a link: the drive module tells places, and nothing else does.
LinesOf(l) == {r \in Lines : l = "drive" => r.at \in Places}

\* Every answer leaves the vehicle as sound as it was, whether it stops it or not.
Answered(k, d) == Calm(k, d, {Zero}) /\ Sound(d)

LEMMA FaultAnswers ==
  ASSUME NEW k, Typed(k), NEW u, Typed(u), Calm(k, u, {}), NEW brake
  PROVE  Answered(k, Fault(u, brake))
<1>1. Calm(u, Fault(u, brake), {Zero}) /\ Rested(Fault(u, brake))
  BY FaultDoes DEF Zero
<1> QED
  BY <1>1, CalmTwice DEF Answered, Sound, Rested

LEMMA TouchAnswers ==
  ASSUME NEW k, Typed(k), Sound(k), NEW d,
         NEW X \in SUBSET (Loose \ {"stopped", "faulted", "boardTripped", "duty", "steer"}),
         Same(k, d, X), Scalars(d)
  PROVE  Answered(k, d) /\ Typed(d) /\ Calm(k, d, {})
<1>1. Typed(d) /\ Calm(k, d, {}) /\ Calm(k, d, {Zero})
  BY TouchedIsCalm
<1>2. Sound(d)
  BY DEF Same, Sound, Fields
<1> QED
  BY <1>1, <1>2 DEF Answered

LEMMA ReadBackDoes ==
  ASSUME NEW k, Typed(k), Sound(k), NEW r \in Lines
  PROVE  Answered(k, ReadBack(k, r))
<1> DEFINE u == [k EXCEPT !.timeouts = r.count]
<1>1. Same(k, u, {"timeouts"}) /\ u.timeouts = r.count /\ r.count \in Nat
  BY DEF Same, Typed, Fields, Lines
<1>2. ReadBack(k, r) = Fault(u, FALSE) \/ ReadBack(k, r) = u
  BY DEF ReadBack
<1> HIDE DEF u
<1>3. Scalars(u) /\ {"timeouts"} \in SUBSET (Loose \ {"stopped", "faulted", "boardTripped", "duty", "steer"})
  BY <1>1 DEF Same, Typed, Scalars, Fields, Loose
<1>4. Answered(k, u) /\ Typed(u) /\ Calm(k, u, {})
  BY <1>1, <1>3, TouchAnswers
<1>5. Answered(k, Fault(u, FALSE))
  BY <1>4, FaultAnswers
<1> QED
  BY <1>2, <1>4, <1>5

LEMMA SelfAnswers ==
  ASSUME NEW k, Typed(k), Sound(k)
  PROVE  Answered(k, k) /\ Calm(k, k, {})
BY CalmSelf DEF Answered

LEMMA OnAccelReplyDoes ==
  ASSUME NEW k, Typed(k), Sound(k), NEW t, NEW r \in Lines
  PROVE  Answered(k, OnAccelReply(k, t, r))
<1> DEFINE u == DutyAcked(k, t, r)
<1>1. Answered(k, u)
  <2>1. /\ Same(k, u, {"acked", "latestAcked", "alive"}) /\ u.acked = r.duty /\ r.duty \in Duties
    BY DEF Same, Typed, Fields, Lines, DutyAcked
  <2> HIDE DEF u
  <2>2. /\ Scalars(u)
        /\ {"acked", "latestAcked", "alive"}
              \in SUBSET (Loose \ {"stopped", "faulted", "boardTripped", "duty", "steer"})
    BY <2>1 DEF Same, Typed, Scalars, Fields, Loose
  <2> QED
    BY <2>1, <2>2, TouchAnswers
<1>2. Answered(k, k) /\ Answered(k, Fault(k, FALSE)) /\ Answered(k, ReadBack(k, r))
  BY SelfAnswers, FaultAnswers, ReadBackDoes
<1> QED
  BY <1>1, <1>2 DEF OnAccelReply

LEMMA NoteTripsDoes ==
  ASSUME NEW k, Typed(k), Sound(k), NEW count \in Nat
  PROVE  Answered(k, NoteTrips(k, count))
<1> DEFINE u == [k EXCEPT !.trips = count]
           v == [u EXCEPT !.announced = FALSE]
           Y == Loose \ {"stopped", "faulted", "boardTripped", "duty", "steer"}
<1>1. NoteTrips(k, count) \in {u, v, Fault(u, FALSE)}
  BY DEF NoteTrips
<1>2. Same(k, u, {"trips"}) /\ u.trips = count
  BY DEF Same, Typed, Fields
<1>3. Same(k, v, {"trips", "announced"}) /\ v.trips = count
  BY DEF Same, Typed, Fields
<1> HIDE DEF u, v
<1>4. Scalars(u) /\ Scalars(v) /\ {"trips"} \in SUBSET Y /\ {"trips", "announced"} \in SUBSET Y
  BY <1>2, <1>3 DEF Same, Typed, Scalars, Fields, Loose
<1>5. Answered(k, u) /\ Answered(k, v) /\ Typed(u) /\ Calm(k, u, {})
  BY <1>2, <1>3, <1>4, TouchAnswers
<1>6. Answered(k, Fault(u, FALSE))
  BY <1>5, FaultAnswers
<1> QED
  BY <1>1, <1>5, <1>6

LEMMA OnBrakeReplyDoes ==
  ASSUME NEW k, Typed(k), Sound(k), NEW t, NEW r
  PROVE  Answered(k, OnBrakeReply(k, t, r))
<1> DEFINE u == [k EXCEPT !.applied = FALSE]
<1>1. OnBrakeReply(k, t, r) \in {k, u, Fault(k, TRUE)}
  BY DEF OnBrakeReply
<1>2. Same(k, u, {"applied"})
  BY DEF Same, Typed
<1> HIDE DEF u
<1>3. Scalars(u) /\ {"applied"} \in SUBSET (Loose \ {"stopped", "faulted", "boardTripped", "duty", "steer"})
  BY <1>2 DEF Same, Typed, Scalars, Fields, Loose
<1>4. Answered(k, u)
  BY <1>2, <1>3, TouchAnswers
<1>5. Answered(k, k) /\ Answered(k, Fault(k, TRUE))
  BY SelfAnswers, FaultAnswers
<1> QED
  BY <1>1, <1>4, <1>5

LEMMA OnDriveReplyDoes ==
  ASSUME NEW k, Typed(k), Sound(k), NEW t \in TxnsOf("drive"), NEW r \in LinesOf("drive"), t.cmd = r.cmd
  PROVE  Answered(k, OnDriveReply(k, t, r))
<1> DEFINE g == [k EXCEPT !.gear = IF r.ok THEN t.arg ELSE "unknown"]
           p == [k EXCEPT !.at = r.at, !.readAge = 0]
           Y == Loose \ {"stopped", "faulted", "boardTripped", "duty", "steer"}
           d == OnDriveReply(k, t, r)
<1>1. /\ r.cmd \in {"gear", "brake", "alive", "angles", "steer"}
      /\ r.cmd = "gear" => t.arg \in {"D", "N"}
  <2>1. Frame(t.cmd, t.arg) \in DriveFrames
    BY DEF TxnsOf, FramesOf, Frame
  <2> QED
    BY <2>1 DEF Frame, DriveFrames
<1>2. CASE r.cmd = "gear"
  <2>1. Same(k, g, {"gear"}) /\ g.gear \in {"D", "N", "unknown"}
    BY <1>1, <1>2 DEF Same, Typed, Fields
  <2> HIDE DEF g
  <2>2. Scalars(g) /\ {"gear"} \in SUBSET Y
    BY <2>1 DEF Same, Typed, Scalars, Fields, Loose
  <2>3. Answered(k, g)
    BY <2>1, <2>2, TouchAnswers
  <2> QED
    BY <1>2, <2>3 DEF OnDriveReply, g
<1>3. CASE r.cmd = "brake"
  BY <1>3, OnBrakeReplyDoes DEF OnDriveReply
<1>4. CASE r.cmd = "alive"
  <2>1. r.count \in Nat
    BY DEF LinesOf, Lines
  <2> QED
    BY <1>4, <2>1, NoteTripsDoes DEF OnDriveReply
<1>5. CASE r.cmd = "angles"
  <2>1. Same(k, p, {"at", "readAge"}) /\ p.at \in Places /\ p.readAge = 0
    BY DEF Same, Typed, Fields, LinesOf
  <2> HIDE DEF p
  <2>2. Scalars(p) /\ {"at", "readAge"} \in SUBSET Y
    BY <2>1, TimesAssumption DEF Same, Typed, Scalars, Fields, Loose
  <2>3. Answered(k, p) /\ Answered(k, Fault(k, TRUE))
    BY <2>1, <2>2, TouchAnswers, SelfAnswers, FaultAnswers
  <2> QED
    BY <1>5, <2>3 DEF OnDriveReply, p
<1>6. CASE r.cmd = "steer"
  BY <1>6, SelfAnswers DEF OnDriveReply
<1> QED
  BY <1>1, <1>2, <1>3, <1>4, <1>5, <1>6

\* A set of places in a sequence has a first one.
LEMMA HasFirst ==
  ASSUME NEW n \in Nat, NEW w \in SUBSET (1 .. n), w # {}
  PROVE  \E i \in w : \A j \in w : i <= j
<1> DEFINE less == OpToRel(<, Nat)
<1>1. IsWellFoundedOn(less, Nat)
  BY NatLessThanWellFounded
<1>2. \A i, j \in Nat : <<i, j>> \in less <=> i < j
  BY DEF OpToRel
<1> HIDE DEF less
<1>3. w \in SUBSET Nat
  OBVIOUS
<1>4. PICK i \in w : \A j \in w : ~(<<j, i>> \in less)
  BY <1>1, <1>3, WFMin
<1>5. i \in Nat /\ \A j \in w : j \in Nat /\ ~(j < i)
  BY <1>2, <1>3, <1>4
<1>6. \A j \in w : i <= j
  BY <1>5
<1> QED
  BY <1>4, <1>6

LEMMA RemovedIsSequence ==
  ASSUME NEW S, NEW s \in Seq(S), NEW i \in 1 .. Len(s)
  PROVE  RemoveAt(s, i) \in Seq(S)
<1>1. SubSeq(s, 1, i - 1) \in Seq(S) /\ SubSeq(s, i + 1, Len(s)) \in Seq(S)
  <2>1. \A n \in 1 .. Len(s) : s[n] \in S
    OBVIOUS
  <2> QED
    BY <2>1, SubSeqProperties
<1> QED
  BY <1>1 DEF RemoveAt

LEMMA OnReplyDoes ==
  ASSUME NEW k, Typed(k), Sound(k), NEW l \in Links, NEW r \in LinesOf(l)
  PROVE  Answered(k, OnReply(k, l, r))
<1> DEFINE w == Waiting(k, l, r.cmd)
           i == CHOOSE j \in w : \A n \in w : j <= n
           t == k.pending[l][i]
           a == [k EXCEPT !.pending[l] = RemoveAt(@, i),
                          !.whole = @ /\ ("stop" \in t.marks => AcksStop(l, t, r))]
<1>1. OnReply(k, l, r) = IF w = {} THEN k
                         ELSE IF l = "accel" THEN OnAccelReply(a, t, r) ELSE OnDriveReply(a, t, r)
  BY DEF OnReply
<1>2. CASE w = {}
  BY <1>1, <1>2, SelfAnswers
<1>3. CASE w # {}
  <2>1. /\ k.pending[l] \in Seq(TxnsOf(l)) /\ DOMAIN k.pending = Links
        /\ w \in SUBSET (1 .. Len(k.pending[l])) /\ Len(k.pending[l]) \in Nat
    BY DEF Typed, Ports, Waiting
  <2>2. i \in w
    <3> HIDE DEF w
    <3>1. \E j \in w : \A n \in w : j <= n
      BY <1>3, <2>1, HasFirst
    <3> QED
      BY <3>1, Zenon
  <2>3. t.cmd = r.cmd /\ t \in TxnsOf(l) /\ i \in 1 .. Len(k.pending[l])
    <3>1. t = k.pending[l][i]
      OBVIOUS
    <3>2. w = {j \in DOMAIN k.pending[l] : k.pending[l][j].cmd = r.cmd}
      BY DEF Waiting
    <3> HIDE DEF i, t, w
    <3> QED
      BY <2>1, <2>2, <3>1, <3>2
  <2> HIDE DEF w, i, t
  <2>4. Same(k, a, {"pending", "whole"}) /\ a.pending = [k.pending EXCEPT ![l] = RemoveAt(@, i)]
    BY DEF Same, Typed, Fields
  <2> HIDE DEF a
  <2>5. RemoveAt(k.pending[l], i) \in Seq(TxnsOf(l))
    BY <2>1, <2>3, RemovedIsSequence
  <2>6. Typed(a) /\ Sound(a) /\ Calm(k, a, {})
    <3>1. /\ DOMAIN a.pending = Links /\ \A m \in Links : a.pending[m] \in Seq(TxnsOf(m))
      BY <2>1, <2>4, <2>5 DEF Typed, Ports
    <3>2. Ports(a) /\ Scalars(a) /\ Sound(a)
      BY <2>4, <3>1, ZenonT(40) DEF Same, Typed, Ports, Scalars, Sound, Fields
    <3>3. a.wire = k.wire /\ a.hb = k.hb /\ a.stopApply = k.stopApply
      BY <2>4 DEF Same, Fields
    <3> QED
      BY <2>4, <3>2, <3>3, CalmSelf DEF Typed, Same
  <2>7. l = "accel" => Answered(a, OnAccelReply(a, t, r))
    BY <2>6, OnAccelReplyDoes DEF LinesOf
  <2>8. l = "drive" => Answered(a, OnDriveReply(a, t, r))
    BY <2>3, <2>6, OnDriveReplyDoes
  <2>9. \A d : Answered(a, d) => Answered(k, d)
    BY <2>6, CalmTwice DEF Answered
  <2> QED
    BY <1>1, <1>3, <2>7, <2>8, <2>9 DEF Links
<1> QED
  BY <1>2, <1>3

LEMMA OnLineDoes ==
  ASSUME NEW k, Typed(k), Sound(k), NEW l \in Links, NEW r \in LinesOf(l)
  PROVE  Answered(k, OnLine(k, l, r))
<1> DEFINE h == IF l = "accel" THEN [k EXCEPT !.heard = TRUE] ELSE k
           v == [h EXCEPT !.announced = TRUE]
           Y == Loose \ {"stopped", "faulted", "boardTripped", "duty", "steer"}
<1>1. OnLine(k, l, r) = IF r.cmd = "trip" THEN Fault(v, FALSE) ELSE OnReply(h, l, r)
  BY DEF OnLine
<1>2. Same(k, h, {"heard"})
  BY DEF Same, Typed
<1>3. Same(k, v, {"heard", "announced"})
  BY <1>2 DEF Same
<1> HIDE DEF h, v
<1>4. Scalars(h) /\ Scalars(v) /\ {"heard"} \in SUBSET Y /\ {"heard", "announced"} \in SUBSET Y
  BY <1>2, <1>3 DEF Same, Typed, Scalars, Fields, Loose
<1>5. Answered(k, h) /\ Typed(h) /\ Calm(k, h, {}) /\ Typed(v) /\ Calm(k, v, {})
  BY <1>2, <1>3, <1>4, TouchAnswers
<1>6. Answered(k, Fault(v, FALSE))
  BY <1>5, FaultAnswers
<1>7. Answered(h, OnReply(h, l, r))
  BY <1>5, OnReplyDoes DEF Answered
<1>8. Answered(k, OnReply(h, l, r))
  BY <1>5, <1>7, CalmTwice DEF Answered
<1> QED
  BY <1>1, <1>6, <1>8

LEMMA LinkLostDoes ==
  ASSUME NEW k, Typed(k), Sound(k), NEW l \in Links
  PROVE  Answered(k, LinkLost(k, l))
<1> DEFINE u == [k EXCEPT !.up[l] = FALSE]
<1>1. Same(k, u, {"up"}) /\ u.up = [k.up EXCEPT ![l] = FALSE]
  BY DEF Same, Typed, Fields
<1> HIDE DEF u
<1>2. Typed(u) /\ Calm(k, u, {})
  <2>1. u.up \in [Links -> BOOLEAN]
    BY <1>1 DEF Typed, Ports
  <2>2. Ports(u) /\ Scalars(u)
    BY <1>1, <2>1 DEF Same, Typed, Ports, Scalars, Fields
  <2>3. u.wire = k.wire /\ u.hb = k.hb /\ u.stopApply = k.stopApply
    BY <1>1 DEF Same, Fields
  <2> QED
    BY <1>1, <2>2, <2>3, CalmSelf DEF Typed, Same
<1>3. Answered(k, Fault(u, TRUE))
  BY <1>2, FaultAnswers
<1> QED
  BY <1>3 DEF LinkLost, u

LEMMA DeadlineDoes ==
  ASSUME NEW k, Typed(k), Sound(k), NEW l \in Links
  PROVE  Answered(k, Deadline(k, l))
<1> DEFINE u == [k EXCEPT !.pending[l] = <<>>, !.alive = @ /\ l # "accel"]
<1>1. Same(k, u, {"pending", "alive"}) /\ u.pending = [k.pending EXCEPT ![l] = <<>>]
  BY DEF Same, Typed, Fields
<1> HIDE DEF u
<1>2. Typed(u) /\ Calm(k, u, {})
  <2>1. DOMAIN u.pending = Links /\ \A m \in Links : u.pending[m] \in Seq(TxnsOf(m))
    BY <1>1 DEF Typed, Ports
  <2>2. Ports(u) /\ Scalars(u)
    BY <1>1, <2>1 DEF Same, Typed, Ports, Scalars, Fields
  <2>3. u.wire = k.wire /\ u.hb = k.hb /\ u.stopApply = k.stopApply
    BY <1>1 DEF Same, Fields
  <2> QED
    BY <1>1, <2>2, <2>3, CalmSelf DEF Typed, Same
<1>3. Answered(k, Fault(u, TRUE)) /\ Answered(k, k)
  BY <1>2, FaultAnswers, SelfAnswers
<1> QED
  BY <1>3 DEF Deadline, u

------------------------------------------------------------------------------
(* The tick.                                                                  *)

\* Nothing that keeps the throttle on goes out when the bridge has been silent for
\* longer than the heartbeat's window.
Harmless(k) == IF HostLive(k) THEN AccelFrames ELSE {Zero, Frame("read", "")}
Live(k) == k.duty = "positive" => HostLive(k)

Ticks(k, d) == Calm(k, d, Harmless(k)) /\ Sound(d) /\ Live(d)

LEMMA TicksTwice ==
  ASSUME NEW a, Typed(a), NEW b, Ticks(a, b), NEW d, Ticks(b, d)
  PROVE  Ticks(a, d)
<1>1. Harmless(b) = Harmless(a)
  BY DEF Ticks, Calm, Fair, Harmless, HostLive
<1> QED
  BY <1>1, CalmTwice DEF Ticks

LEMMA ZeroIsHarmless ==
  ASSUME NEW k
  PROVE  Zero \in Harmless(k) /\ {Zero} \subseteq Harmless(k)
BY FramesFit DEF Harmless, Zero, FramesOf

LEMMA LiveSettled ==
  ASSUME NEW k, NEW d, Live(k), d.hb = k.hb, Settled(k, d, {}) \/ Settled(k, d, {"latestAcked"})
  PROVE  Live(d)
<1>1. CASE Rested(d)
  BY <1>1 DEF Rested, Live
<1>2. CASE ~Rested(d)
  BY <1>2 DEF Settled, Unwritten, Fields, Live, HostLive
<1> QED
  BY <1>1, <1>2

LEMMA HeartbeatCheckedDoes ==
  ASSUME NEW k, Typed(k), Sound(k)
  PROVE  Ticks(k, HeartbeatChecked(k))
<1>1. CASE InMotion(k) /\ ~k.stopped /\ ~HostLive(k)
  <2>1. HeartbeatChecked(k) = SafeStop(k, TRUE)
    BY <1>1 DEF HeartbeatChecked
  <2>2. Calm(k, SafeStop(k, TRUE), {Zero}) /\ Rested(SafeStop(k, TRUE))
    BY SafeStopDoes DEF Zero
  <2>3. Calm(k, SafeStop(k, TRUE), Harmless(k))
    BY <2>2, ZeroIsHarmless DEF Calm, Fair, Extends
  <2> QED
    BY <2>1, <2>2, <2>3 DEF Ticks, Rested, Sound, Live
<1>2. CASE ~(InMotion(k) /\ ~k.stopped /\ ~HostLive(k))
  <2>1. HeartbeatChecked(k) = k
    BY <1>2 DEF HeartbeatChecked
  <2>2. Live(k)
    BY <1>2 DEF Live, InMotion, Sound
  <2> QED
    BY <2>1, <2>2, CalmSelf DEF Ticks
<1> QED
  BY <1>1, <1>2

LEMMA DriveWriteTicks ==
  ASSUME NEW k, Typed(k), Sound(k), Live(k), NEW x, Typed(x), Calm(k, x, {}), Sound(x),
         x.duty = k.duty, NEW cmd, NEW arg,
         Frame(cmd, arg) \in FramesOf("drive"), Frame(cmd, arg) # ApplyFrame
  PROVE  Ticks(k, Write(x, "drive", cmd, arg, {}))
<1> DEFINE d == Write(x, "drive", cmd, arg, {})
<1>1. Calm(x, d, {Zero}) /\ Settled(x, d, {})
  BY DriveWriteDoes
<1> HIDE DEF d
<1>2. Calm(k, d, Harmless(k))
  BY <1>1, ZeroIsHarmless, CalmTwice
<1>3. Sound(d)
  BY <1>1, SoundSettled
<1>4. Live(d)
  <2>1. Live(x) /\ d.hb = x.hb
    BY <1>1 DEF Live, Calm, Fair, HostLive
  <2> QED
    BY <1>1, <2>1, LiveSettled
<1>5. Ticks(k, d)
  BY <1>2, <1>3, <1>4 DEF Ticks
<1> QED
  BY <1>5 DEF d

LEMMA SelfTicks ==
  ASSUME NEW k, Typed(k), Sound(k), Live(k)
  PROVE  Ticks(k, k) /\ Calm(k, k, {})
BY CalmSelf DEF Ticks

LEMMA DriveKeptAliveDoes ==
  ASSUME NEW k, Typed(k), Sound(k), Live(k)
  PROVE  Ticks(k, DriveKeptAlive(k))
<1> DEFINE u == [k EXCEPT !.moving = FALSE]
<1>1. Frame("alive", "") # ApplyFrame /\ Frame("brake", "stop") # ApplyFrame
  BY DEF Frame, ApplyFrame
<1>2. Ticks(k, Write(k, "drive", "alive", "", {}))
  BY <1>1, FramesFit, SelfTicks, DriveWriteTicks
<1>3. Ticks(k, Write(u, "drive", "brake", "stop", {}))
  <2>1. Same(k, u, {"moving"})
    BY DEF Same, Typed
  <2> HIDE DEF u
  <2>2. Scalars(u) /\ {"moving"} \in SUBSET (Loose \ {"stopped", "faulted", "boardTripped", "duty", "steer"})
    BY <2>1 DEF Same, Typed, Scalars, Fields, Loose
  <2>3. Typed(u) /\ Calm(k, u, {}) /\ Sound(u) /\ u.duty = k.duty
    BY <2>1, <2>2, TouchAnswers DEF Answered, Same, Fields
  <2> QED
    BY <1>1, <2>3, FramesFit, DriveWriteTicks
<1> HIDE DEF u
<1> QED
  BY <1>2, <1>3, SelfTicks DEF DriveKeptAlive, u

LEMMA PolledDoes ==
  ASSUME NEW k, Typed(k), Sound(k), Live(k)
  PROVE  Ticks(k, Polled(k))
<1>1. Frame("angles", "") # ApplyFrame
  BY DEF Frame, ApplyFrame
<1>2. Ticks(k, Write(k, "drive", "angles", "", {}))
  BY <1>1, FramesFit, SelfTicks, DriveWriteTicks
<1> QED
  BY <1>2, SelfTicks DEF Polled

\* The throttle board's keepalive goes out only while the host is heard.
LEMMA AccelProbedDoes ==
  ASSUME NEW k, Typed(k), Sound(k), Live(k)
  PROVE  Ticks(k, AccelProbed(k))
<1> DEFINE cmd == IF k.duty = "positive" THEN "alive" ELSE "read"
           d == Write(k, "accel", cmd, "", {})
           H == {Zero} \cup IF "accel" = "accel" THEN {Frame(cmd, "")} ELSE {}
<1>1. Frame(cmd, "") \in FramesOf("accel") /\ Frame(cmd, "") \in Harmless(k) /\ "accel" \in Links
  BY FramesFit DEF Live, Harmless, FramesOf, Links
<1> HIDE DEF cmd
<1>2. Calm(k, d, H) /\ Settled(k, d, {})
  BY <1>1, WriteDoes DEF Zero
<1> HIDE DEF d
<1>3. Calm(k, d, Harmless(k))
  BY <1>1, <1>2, ZeroIsHarmless DEF Calm, Fair, Extends
<1>4. Ticks(k, d)
  BY <1>2, <1>3, SoundSettled, LiveSettled DEF Ticks, Calm, Fair
<1> QED
  BY <1>4, SelfTicks DEF AccelProbed, d, cmd

LEMMA BrakeBoundedDoes ==
  ASSUME NEW k, Typed(k), Sound(k), Live(k)
  PROVE  Ticks(k, BrakeBounded(k))
<1> DEFINE u == [k EXCEPT !.moveDir = "none", !.moveAge = 0]
           v == [k EXCEPT !.moveDir = "none", !.moveAge = 0, !.moving = FALSE]
           halted == Write(v, "drive", "brake", "stop", {})
           Y == Loose \ {"stopped", "faulted", "boardTripped", "duty", "steer"}
<1>1. BrakeBounded(k) \in {k, u, halted, Fault(halted, TRUE)}
  BY DEF BrakeBounded
<1>2. /\ Same(k, u, {"moveDir", "moveAge"}) /\ u.moveDir = "none" /\ u.moveAge = 0
      /\ Same(k, v, {"moveDir", "moveAge", "moving"}) /\ v.moveDir = "none" /\ v.moveAge = 0
  BY DEF Same, Typed, Fields
<1> HIDE DEF u, v
<1>3. 0 \in 0 .. Stroke + 1
  BY TimesAssumption
<1>4. /\ Scalars(u) /\ {"moveDir", "moveAge"} \in SUBSET Y
      /\ Scalars(v) /\ {"moveDir", "moveAge", "moving"} \in SUBSET Y
  BY <1>2, <1>3 DEF Same, Typed, Scalars, Fields, Loose
<1>5. Ticks(k, u)
  <2>1. Typed(u) /\ Calm(k, u, {}) /\ Answered(k, u)
    BY <1>2, <1>4, TouchAnswers, ZenonT(40)
  <2>2. u.duty = k.duty /\ u.hb = k.hb
    BY <1>2 DEF Same, Fields
  <2> QED
    BY <2>1, <2>2, ZeroIsHarmless DEF Ticks, Answered, Calm, Fair, Extends, Live, HostLive
<1>6. Typed(v) /\ Calm(k, v, {}) /\ Sound(v) /\ v.duty = k.duty
  BY <1>2, <1>4, TouchAnswers, ZenonT(40) DEF Answered, Same, Fields
<1>7. Ticks(k, halted)
  <2>1. Frame("brake", "stop") # ApplyFrame
    BY DEF Frame, ApplyFrame
  <2> QED
    BY <1>6, <2>1, FramesFit, DriveWriteTicks
<1> HIDE DEF halted
<1>8. Ticks(k, Fault(halted, TRUE))
  <2> DEFINE d == Fault(halted, TRUE)
  <2>1. Calm(halted, d, {Zero}) /\ Rested(d) /\ Typed(halted)
    BY <1>7, FaultDoes DEF Ticks, Calm, Fair, Zero
  <2> HIDE DEF d
  <2>2. Calm(k, d, Harmless(k))
    <3>1. Calm(k, halted, Harmless(k)) /\ {Zero} \subseteq Harmless(k) /\ Harmless(k) \subseteq Harmless(k)
      BY <1>7, ZeroIsHarmless DEF Ticks
    <3> QED
      BY <2>1, <3>1, CalmTwice
  <2>3. Ticks(k, d)
    BY <2>1, <2>2 DEF Ticks, Rested, Sound, Live
  <2> QED
    BY <2>3 DEF d
<1> QED
  BY <1>1, <1>5, <1>7, <1>8, SelfTicks

LEMMA TickDoes ==
  ASSUME NEW k, Typed(k), Sound(k)
  PROVE  Calm(k, Tick(k), Harmless(k)) /\ Sound(Tick(k))
<1> DEFINE k1 == Deadline(k, "accel")
           k2 == Deadline(k1, "drive")
           k3 == HeartbeatChecked(k2)
           k4 == DriveKeptAlive(k3)
           k5 == AccelProbed(k4)
           k6 == Polled(k5)
           k7 == BrakeBounded(k6)
           d == [k7 EXCEPT !.ticked = TRUE]
<1>1. Tick(k) = d
  BY DEF Tick
<1>2. Answered(k, k1) /\ Typed(k1)
  BY DeadlineDoes DEF Answered, Calm, Fair, Links
<1> HIDE DEF k1
<1>3. Answered(k1, k2) /\ Typed(k2)
  BY <1>2, DeadlineDoes DEF Answered, Calm, Fair, Links
<1> HIDE DEF k2
<1>4. Ticks(k2, k3) /\ Typed(k3)
  BY <1>3, HeartbeatCheckedDoes DEF Answered, Ticks, Calm, Fair
<1> HIDE DEF k3
<1>5. Ticks(k3, k4) /\ Typed(k4)
  BY <1>4, DriveKeptAliveDoes DEF Ticks, Calm, Fair
<1> HIDE DEF k4
<1>6. Ticks(k4, k5) /\ Typed(k5)
  BY <1>5, AccelProbedDoes DEF Ticks, Calm, Fair
<1> HIDE DEF k5
<1>7. Ticks(k5, k6) /\ Typed(k6)
  BY <1>6, PolledDoes DEF Ticks, Calm, Fair
<1> HIDE DEF k6
<1>8. Ticks(k6, k7) /\ Typed(k7)
  BY <1>7, BrakeBoundedDoes DEF Ticks, Calm, Fair
<1> HIDE DEF k7
<1>9. Ticks(k2, k7)
  <2>1. Ticks(k2, k4)
    BY <1>3, <1>4, <1>5, TicksTwice
  <2>2. Ticks(k2, k5)
    BY <1>3, <2>1, <1>6, TicksTwice
  <2>3. Ticks(k2, k6)
    BY <1>3, <2>2, <1>7, TicksTwice
  <2> QED
    BY <1>3, <2>3, <1>8, TicksTwice
<1>10. Calm(k, k2, {Zero})
  BY <1>2, <1>3, CalmTwice DEF Answered
<1>11. Calm(k, k7, Harmless(k))
  <2>1. Harmless(k2) = Harmless(k)
    BY <1>10 DEF Calm, Fair, Harmless, HostLive
  <2> QED
    BY <1>9, <1>10, <2>1, ZeroIsHarmless, CalmTwice DEF Ticks
<1>12. Same(k7, d, {"ticked"})
  BY <1>8 DEF Same, Typed
<1> HIDE DEF d
<1>13. Calm(k7, d, {}) /\ Sound(d)
  <2>1. Scalars(d) /\ {"ticked"} \in SUBSET (Loose \ {"stopped", "faulted", "boardTripped", "duty", "steer"})
    BY <1>8, <1>12 DEF Same, Typed, Scalars, Fields, Loose
  <2> QED
    BY <1>8, <1>9, <1>12, <2>1, TouchAnswers DEF Ticks, Answered
<1>14. Calm(k, d, Harmless(k))
  BY <1>11, <1>13, CalmTwice
<1> QED
  BY <1>1, <1>13, <1>14

LEMMA TxnAges ==
  ASSUME NEW l, NEW t \in TxnsOf(l)
  PROVE  [t EXCEPT !.age = Past(@, Reply)] \in TxnsOf(l)
<1> DEFINE T == [cmd : {"duty", "alive", "read", "brake", "steer", "gear", "angles"},
                 arg : {"zero", "positive", "stop", "apply", "release", "turn", "D", "N", ""},
                 age : 0 .. Reply + 1, marks : SUBSET Marks]
           s == [t EXCEPT !.age = Past(@, Reply)]
<1>1. t \in T /\ [cmd |-> t.cmd, arg |-> t.arg] \in FramesOf(l)
  BY DEF TxnsOf
<1>2. t.age \in 0 .. Reply + 1 /\ Reply \in Nat
  BY <1>1, TimesAssumption
<1>3. Past(t.age, Reply) \in 0 .. Reply + 1
  BY <1>2 DEF Past
<1>4. s \in T /\ s.cmd = t.cmd /\ s.arg = t.arg
  BY <1>1, <1>3
<1> QED
  BY <1>1, <1>4 DEF TxnsOf

\* A unit of time ages what is counted and leaves the wires alone.
LEMMA ControlsAgedDoes ==
  ASSUME NEW k, Typed(k), Sound(k)
  PROVE  LET d == ControlsAged(k)
         IN  /\ Typed(d) /\ Sound(d) /\ d.wire = k.wire /\ d.duty = k.duty
             /\ k.stopApply # Never <=> d.stopApply # Never
             /\ d.hb = (IF k.hb < Horizon THEN k.hb + 1 ELSE k.hb)
             /\ d.up = k.up /\ d.broken = k.broken
<1> DEFINE d == ControlsAged(k)
           aged == [l \in Links |-> [i \in DOMAIN k.pending[l] |-> [k.pending[l][i] EXCEPT !.age = Past(@, Reply)]]]
<1> SUFFICES /\ Typed(d) /\ Sound(d) /\ d.wire = k.wire /\ d.duty = k.duty
             /\ k.stopApply # Never <=> d.stopApply # Never
             /\ d.hb = (IF k.hb < Horizon THEN k.hb + 1 ELSE k.hb)
             /\ d.up = k.up /\ d.broken = k.broken
  OBVIOUS
<1>1. /\ Same(k, d, {"pending", "heard", "ticked", "moveAge", "stopApply", "readAge", "hb"})
      /\ d.pending = aged
      /\ d.moveAge = (IF k.moveDir = "none" THEN 0 ELSE Past(k.moveAge, Stroke))
      /\ d.stopApply = (IF k.stopApply = Never THEN Never ELSE Past(k.stopApply, Stroke))
      /\ d.readAge = Past(k.readAge, MaxAge)
      /\ d.hb = (IF k.hb < Horizon THEN k.hb + 1 ELSE k.hb)
  BY DEF ControlsAged, Same, Typed, Fields
<1> HIDE DEF d
<1>2. ASSUME NEW l \in Links PROVE aged[l] \in Seq(TxnsOf(l))
  <2> DEFINE p == k.pending[l]
             q == aged[l]
  <2>1. p \in Seq(TxnsOf(l)) /\ DOMAIN p = 1 .. Len(p) /\ Len(p) \in Nat
    BY DEF Typed, Ports
  <2>2. q = [i \in 1 .. Len(p) |-> [p[i] EXCEPT !.age = Past(@, Reply)]]
    BY <2>1
  <2>3. \A i \in 1 .. Len(p) : p[i] \in TxnsOf(l)
    BY <2>1
  <2>4. \A t \in TxnsOf(l) : [t EXCEPT !.age = Past(@, Reply)] \in TxnsOf(l)
    BY TxnAges
  <2> HIDE DEF p, q
  <2>5. q \in Seq(TxnsOf(l))
    BY <2>1, <2>2, <2>3, <2>4
  <2> QED
    BY <2>5 DEF q
<1>3. DOMAIN aged = Links
  OBVIOUS
<1> HIDE DEF aged
<1>4. Ports(d)
  BY <1>1, <1>2, <1>3 DEF Same, Typed, Ports, Fields
<1>5. /\ Past(k.moveAge, Stroke) \in 0 .. Stroke + 1 /\ 0 \in 0 .. Stroke + 1
      /\ Past(k.readAge, MaxAge) \in 0 .. MaxAge + 1
      /\ k.stopApply # Never => Past(k.stopApply, Stroke) \in 0 .. Stroke + 1
      /\ d.hb \in 0 .. Horizon
  BY <1>1, TimesAssumption DEF Typed, Scalars, Past, Never
<1>6. Scalars(d)
  BY <1>1, <1>5 DEF Same, Typed, Scalars, Fields
<1>7. Sound(d) /\ d.wire = k.wire /\ d.duty = k.duty /\ d.up = k.up /\ d.broken = k.broken
  BY <1>1 DEF Same, Sound, Fields
<1>8. k.stopApply # Never <=> d.stopApply # Never
  BY <1>1, <1>5 DEF Never
<1> QED
  BY <1>1, <1>4, <1>6, <1>7, <1>8 DEF Typed, Same

------------------------------------------------------------------------------
(* The adapter.                                                               *)

\* One part of apply(): only a press of the brake starts it within a stop's episode.
Adapts(x, y) ==
    /\ y.a \in Adapters /\ Sound(y.c) /\ Fair(x.c, y.c, AccelFrames)
    /\ Calm(x.c, y.c, AccelFrames) \/ (x.a.brake # "held" /\ y.a.brake = "held")

\* A part that is not the brake's.
Spares(x, y) ==
    /\ y.a \in Adapters /\ Sound(y.c) /\ Calm(x.c, y.c, AccelFrames)
    /\ y.a.brake = x.a.brake

LEMMA SparesAdapts ==
  ASSUME NEW x, NEW y, Spares(x, y)
  PROVE  Adapts(x, y)
BY DEF Spares, Adapts, Calm

LEMMA WiderIsCalm ==
  ASSUME NEW k, NEW d, NEW F, NEW H, Typed(k), F \subseteq H
  PROVE  Fair(k, d, F) => Fair(k, d, H)
BY DEF Fair, Extends

LEMMA AccelFramesFit ==
  /\ Zero \in AccelFrames /\ {Zero} \subseteq AccelFrames
  /\ \A duty \in Duties : {Zero, Frame("duty", duty)} \subseteq AccelFrames
BY DEF Zero, Frame, AccelFrames, Duties

LEMMA SparesSelf ==
  ASSUME NEW x, Typed(x.c), Sound(x.c), x.a \in Adapters
  PROVE  Spares(x, x)
BY CalmSelf DEF Spares

LEMMA TryGearDoes ==
  ASSUME NEW x, Typed(x.c), Sound(x.c), x.a \in Adapters, NEW cmd \in Commands
  PROVE  Spares(x, TryGear(x, cmd))
<1> DEFINE k == x.c
           d == Gear(k, cmd.gear)
           a == [x.a EXCEPT !.gear = cmd.gear]
           y == [c |-> d, a |-> a]
<1>1. cmd.gear \in {"D", "N"}
  BY RigAssumption DEF Commands
<1>2. Calm(k, d, {Zero}) /\ Sound(d)
  BY <1>1, GearDoes
<1>3. a \in Adapters /\ a.brake = x.a.brake
  BY <1>1 DEF Adapters
<1> HIDE DEF d, a
<1>4. Calm(k, d, AccelFrames)
  BY <1>2, AccelFramesFit, WiderIsCalm DEF Calm
<1>5. Spares(x, y)
  BY <1>2, <1>3, <1>4 DEF Spares
<1> QED
  BY <1>5, SparesSelf DEF TryGear, y, d, a

LEMMA TryThrottleDoes ==
  ASSUME NEW x, Typed(x.c), Sound(x.c), x.a \in Adapters, NEW cmd \in Commands
  PROVE  Spares(x, TryThrottle(x, cmd))
<1> DEFINE k == x.c
           d == SetThrottle(k, cmd.throttle)
           a == [x.a EXCEPT !.duty = cmd.throttle]
           y == [c |-> d, a |-> a]
<1>1. cmd.throttle \in Duties
  BY DEF Commands
<1>2. CASE cmd.throttle = "positive" => CanThrottle(k)
  <2>1. cmd.throttle = "positive" => ~k.stopped
    BY <1>2 DEF CanThrottle, Open
  <2>2. Calm(k, d, {Zero, Frame("duty", cmd.throttle)}) /\ Sound(d)
    BY <1>1, <2>1, SetThrottleDoes
  <2>3. a \in Adapters /\ a.brake = x.a.brake
    BY <1>1 DEF Adapters
  <2> HIDE DEF d, a
  <2>4. Calm(k, d, AccelFrames)
    BY <1>1, <2>2, AccelFramesFit, WiderIsCalm DEF Calm
  <2>5. Spares(x, y)
    BY <2>2, <2>3, <2>4 DEF Spares
  <2> QED
    BY <2>5, SparesSelf DEF TryThrottle, y, d, a
<1>3. CASE ~(cmd.throttle = "positive" => CanThrottle(k))
  BY <1>3, SparesSelf DEF TryThrottle
<1> QED
  BY <1>2, <1>3

LEMMA TrySteerDoes ==
  ASSUME NEW x, Typed(x.c), Sound(x.c), x.a \in Adapters, NEW cmd \in Commands
  PROVE  Spares(x, TrySteer(x, cmd))
<1> DEFINE k == x.c
           d == Steer(k, cmd.steer)
           a == [x.a EXCEPT !.steer = cmd.steer]
           y == [c |-> d, a |-> a]
<1>1. cmd.steer \in {"stop", "turn"}
  BY RigAssumption DEF Commands
<1>2. CASE CanSteer(k, cmd.steer)
  <2>1. cmd.steer = "turn" => ~k.stopped
    BY <1>2 DEF CanSteer, Open
  <2>2. Calm(k, d, {Zero}) /\ Sound(d)
    BY <1>1, <2>1, SteerDoes
  <2>3. a \in Adapters /\ a.brake = x.a.brake
    BY <1>1 DEF Adapters
  <2> HIDE DEF d, a
  <2>4. Calm(k, d, AccelFrames)
    BY <2>2, AccelFramesFit, WiderIsCalm DEF Calm
  <2>5. Spares(x, y)
    BY <2>2, <2>3, <2>4 DEF Spares
  <2> QED
    BY <2>5, SparesSelf DEF TrySteer, y, d, a
<1>3. CASE ~CanSteer(k, cmd.steer)
  BY <1>3, SparesSelf DEF TrySteer
<1> QED
  BY <1>2, <1>3

LEMMA TryBrakeDoes ==
  ASSUME NEW x, Typed(x.c), Sound(x.c), x.a \in Adapters, NEW cmd \in Commands
  PROVE  Adapts(x, TryBrake(x, cmd))
<1> DEFINE k == x.c
           d == ApplyBrake(k)
           e == ReleaseBrake(k)
           a == [x.a EXCEPT !.brake = "held", !.duty = "zero"]
           b == [x.a EXCEPT !.brake = "free"]
           y == [c |-> d, a |-> a]
           z == [c |-> e, a |-> b]
<1>1. /\ a \in Adapters /\ a.brake = "held" /\ b \in Adapters
  BY DEF Adapters, Duties
<1>2. Fair(k, d, {Zero}) /\ Sound(d)
  BY ApplyBrakeDoes
<1>3. Calm(k, e, {Zero}) /\ Sound(e)
  BY ReleaseBrakeDoes
<1> HIDE DEF d, e, a, b
<1>4. Fair(k, d, AccelFrames) /\ Calm(k, e, AccelFrames)
  BY <1>2, <1>3, AccelFramesFit, WiderIsCalm DEF Calm
<1>5. CASE cmd.brake /\ x.a.brake # "held"
  <2>1. TryBrake(x, cmd) = y
    BY <1>5 DEF TryBrake, y, d, a
  <2> QED
    BY <1>1, <1>2, <1>4, <1>5, <2>1 DEF Adapts
<1>6. CASE ~(cmd.brake /\ x.a.brake # "held")
  <2>1. TryBrake(x, cmd) \in {x, z}
    BY <1>6 DEF TryBrake, z, e, b
  <2>2. Adapts(x, z)
    BY <1>1, <1>3, <1>4 DEF Adapts, Calm
  <2> QED
    BY <2>1, <2>2, SparesSelf, SparesAdapts
<1> QED
  BY <1>5, <1>6

LEMMA TryDoes ==
  ASSUME NEW x, Typed(x.c), Sound(x.c), x.a \in Adapters, NEW cmd \in Commands,
         NEW part \in {"gear", "brake", "throttle", "steer"}
  PROVE  Adapts(x, Try(part, x, cmd))
<1>1. /\ Adapts(x, TryGear(x, cmd)) /\ Adapts(x, TryThrottle(x, cmd)) /\ Adapts(x, TrySteer(x, cmd))
      /\ Adapts(x, TryBrake(x, cmd))
  BY TryGearDoes, TryThrottleDoes, TrySteerDoes, TryBrakeDoes, SparesAdapts
<1> QED
  BY <1>1 DEF Try

\* Before and after the brake's own part.
LEMMA SparesTwice ==
  ASSUME NEW x, NEW y, NEW z, Typed(x.c), Spares(x, y), Spares(y, z)
  PROVE  Spares(x, z)
BY CalmTwice DEF Spares

LEMMA SparedFirst ==
  ASSUME NEW x, NEW y, NEW z, Typed(x.c), Spares(x, y), Adapts(y, z)
  PROVE  Adapts(x, z)
<1>1. Fair(x.c, y.c, AccelFrames) /\ Fair(y.c, z.c, AccelFrames)
  BY DEF Spares, Adapts, Calm
<1>2. Fair(x.c, z.c, AccelFrames)
  BY <1>1, FairTwice
<1>3. Calm(y.c, z.c, AccelFrames) => Calm(x.c, z.c, AccelFrames)
  BY CalmTwice DEF Spares
<1> QED
  BY <1>2, <1>3 DEF Spares, Adapts

LEMMA SparedLast ==
  ASSUME NEW x, NEW y, NEW z, Typed(x.c), Adapts(x, y), Spares(y, z)
  PROVE  Adapts(x, z)
<1>1. Fair(x.c, y.c, AccelFrames) /\ Fair(y.c, z.c, AccelFrames)
  BY DEF Spares, Adapts, Calm
<1>2. Fair(x.c, z.c, AccelFrames)
  BY <1>1, FairTwice
<1>3. Calm(x.c, y.c, AccelFrames) => Calm(x.c, z.c, AccelFrames)
  BY CalmTwice DEF Spares
<1> QED
  BY <1>2, <1>3 DEF Spares, Adapts

LEMMA AppliedDoes ==
  ASSUME NEW x, Typed(x.c), Sound(x.c), x.a \in Adapters, NEW cmd \in Commands
  PROVE  Adapts(x, Applied(x, cmd))
<1> DEFINE y1 == TryGear(x, cmd)
           y2 == TryBrake(y1, cmd)
           y3 == TryThrottle(y2, cmd)
           y4 == TrySteer(y3, cmd)
<1>1. Applied(x, cmd) = y4
  BY DEF Applied
<1>2. Spares(x, y1)
  BY TryGearDoes
<1> HIDE DEF y1
<1>3. Typed(y1.c) /\ Sound(y1.c) /\ y1.a \in Adapters
  BY <1>2 DEF Spares, Calm, Fair
<1>4. Adapts(y1, y2)
  BY <1>3, TryBrakeDoes
<1> HIDE DEF y2
<1>5. Typed(y2.c) /\ Sound(y2.c) /\ y2.a \in Adapters
  BY <1>4 DEF Adapts, Fair
<1>6. Spares(y2, y3)
  BY <1>5, TryThrottleDoes
<1> HIDE DEF y3
<1>7. Typed(y3.c) /\ Sound(y3.c) /\ y3.a \in Adapters
  BY <1>6 DEF Spares, Calm, Fair
<1>8. Spares(y3, y4)
  BY <1>7, TrySteerDoes
<1> HIDE DEF y4
<1>9. Spares(y2, y4)
  BY <1>5, <1>6, <1>8, SparesTwice
<1>10. Adapts(x, y2)
  BY <1>2, <1>4, SparedFirst
<1>11. Adapts(x, y4)
  BY <1>9, <1>10, SparedLast
<1> QED
  BY <1>1, <1>11

LEMMA StoppingDoes ==
  ASSUME NEW x, Typed(x.c), Sound(x.c), x.a \in Adapters
  PROVE  Adapts(x, Stopping(x))
<1> DEFINE d == SafeStop(x.c, TRUE)
           a == [x.a EXCEPT !.duty = "zero", !.steer = "unknown", !.brake = "held"]
           y == [c |-> d, a |-> a]
<1>1. Stopping(x) = y
  BY DEF Stopping
<1>2. a \in Adapters
  BY DEF Adapters, Duties
<1>3. Calm(x.c, d, {Zero}) /\ Rested(d)
  BY SafeStopDoes DEF Zero
<1> HIDE DEF d, a
<1>4. Calm(x.c, d, AccelFrames) /\ Sound(d)
  BY <1>3, AccelFramesFit, WiderIsCalm DEF Calm, Sound, Rested
<1> QED
  BY <1>1, <1>2, <1>4 DEF Adapts, Calm

------------------------------------------------------------------------------
(* The boards.                                                                *)

LineOf(cmd, ok, why, duty, count, at) ==
    [cmd |-> cmd, ok |-> ok, why |-> why, duty |-> duty, count |-> count, at |-> at]

LEMMA LineFits ==
  ASSUME NEW cmd \in {"duty", "alive", "read", "brake", "steer", "gear", "angles", "trip"},
         NEW ok \in BOOLEAN,
         NEW why \in {"", "TIMEOUT", "AT_LIMIT", "STALL", "WD_TRIPPED", "NO_SIGNAL"},
         NEW duty \in Duties, NEW count \in Nat, NEW at \in Places \cup {"none"}
  PROVE  LineOf(cmd, ok, why, duty, count, at) \in Lines
  BY DEF LineOf, Lines

LEMMA ThrottleBoardDoes ==
  ASSUME NEW b \in ThrottleBoards, NEW f \in AccelFrames
  PROVE  /\ ThrottleTakes(b, f) \in ThrottleBoards
         /\ ThrottleAnswers(b, f) \in LinesOf("accel")
         /\ ThrottleAged(b) \in ThrottleBoards
<1> DEFINE t == ThrottleTakes(b, f)
<1>1. /\ f.cmd \in {"duty", "alive", "read"}
      /\ f.cmd = "duty" => f.arg \in Duties
  BY DEF AccelFrames
<1>2. t \in ThrottleBoards
  <2> DEFINE r == IF Refreshes(b, f) THEN [b EXCEPT !.quiet = 0] ELSE b
             out == IF f.arg = "zero" THEN FALSE ELSE r.timedOut
             u == [r EXCEPT !.duty = f.arg, !.timedOut = out]
  <2>1. 0 \in 0 .. Silence + 1
    BY SilenceAssumption
  <2>2. r \in ThrottleBoards
    BY <2>1 DEF ThrottleBoards
  <2>3. t = IF f.cmd = "duty" /\ ~RefusesDuty(b, f) THEN u ELSE r
    BY DEF ThrottleTakes
  <2> HIDE DEF r
  <2>4. out \in BOOLEAN
    BY <2>2 DEF ThrottleBoards
  <2> HIDE DEF out
  <2>5. f.cmd = "duty" => u \in ThrottleBoards
    BY <1>1, <2>2, <2>4 DEF ThrottleBoards
  <2> QED
    BY <2>2, <2>3, <2>5
<1>3. ThrottleAged(b) \in ThrottleBoards
  <2> DEFINE q == IF b.duty = "zero" THEN 0 ELSE Past(b.quiet, Silence)
             a == [b EXCEPT !.quiet = q]
  <2>1. q \in 0 .. Silence + 1
    BY SilenceAssumption DEF Past, ThrottleBoards
  <2> HIDE DEF q
  <2>2. a \in ThrottleBoards
    BY <2>1 DEF ThrottleBoards
  <2> HIDE DEF a
  <2>3. [a EXCEPT !.duty = "zero", !.timedOut = TRUE, !.timeouts = @ + 1] \in ThrottleBoards
    <3>1. a.timeouts + 1 \in Nat /\ "zero" \in Duties
      BY <2>2 DEF ThrottleBoards, Duties
    <3> QED
      BY <2>2, <3>1 DEF ThrottleBoards
  <2>4. RestOnSilence(a) \in ThrottleBoards
    BY <2>2, <2>3 DEF RestOnSilence
  <2> QED
    BY <2>4 DEF ThrottleAged, a, q
<1> HIDE DEF t
<1>4. ThrottleAnswers(b, f) \in LinesOf("accel")
  <2>1. t.duty \in Duties /\ b.timeouts \in Nat
    BY <1>2 DEF ThrottleBoards
  <2> DEFINE why == IF f.cmd = "duty" /\ RefusesDuty(b, f) THEN "TIMEOUT" ELSE ""
             ok == ~(f.cmd = "duty" /\ RefusesDuty(b, f))
  <2>2. why \in {"", "TIMEOUT"} /\ ok \in BOOLEAN
    OBVIOUS
  <2>3. ThrottleAnswers(b, f)
          = [cmd |-> f.cmd, ok |-> ok, why |-> why, duty |-> t.duty, count |-> b.timeouts, at |-> "none"]
    BY DEF ThrottleAnswers, t
  <2> HIDE DEF why, ok
  <2>4. ThrottleAnswers(b, f) \in Lines
    <3>1. /\ f.cmd \in {"duty", "alive", "read", "brake", "steer", "gear", "angles", "trip"}
          /\ why \in {"", "TIMEOUT", "AT_LIMIT", "STALL", "WD_TRIPPED", "NO_SIGNAL"}
          /\ "none" \in Places \cup {"none"}
      BY <1>1, <2>2
    <3>2. LineOf(f.cmd, ok, why, t.duty, b.timeouts, "none") \in Lines
      BY <2>1, <2>2, <3>1, LineFits, ZenonT(40)
    <3> QED
      BY <2>3, <3>2 DEF LineOf
  <2> QED
    BY <2>4 DEF LinesOf
<1> QED
  BY <1>2, <1>3, <1>4 DEF t

LEMMA SwitchBrakeDoes ==
  ASSUME NEW b \in DriveBoards(Horizon), NEW dir \in {"stop", "apply", "release"}
  PROVE  SwitchBrake(b, dir) \in DriveBoards(Horizon)
<1>1. 0 \in 0 .. Horizon + 1
  BY TimesAssumption
<1> QED
  BY <1>1 DEF SwitchBrake, DriveBoards

\* A drive module of any history.
LEMMA DriveBoardDoes ==
  ASSUME NEW b \in DriveBoards(Horizon), NEW f \in DriveFrames, NEW signal \in BOOLEAN
  PROVE  /\ DriveTakes(b, f) \in DriveBoards(Horizon)
         /\ DriveAnswers(b, f, signal) \in LinesOf("drive")
<1>1. /\ f.cmd \in {"brake", "steer", "gear", "alive", "angles"}
      /\ f.cmd = "brake" => f.arg \in {"stop", "apply", "release"}
      /\ f.cmd = "steer" => f.arg \in {"stop", "turn"}
  BY DEF DriveFrames
<1>2. 0 \in 0 .. Horizon + 1 /\ 0 \in 0 .. Silence + 1
  BY TimesAssumption, SilenceAssumption
<1>3. DriveTakes(b, f) \in DriveBoards(Horizon)
  <2> DEFINE cleared == IF f.cmd \in {"brake", "steer"} /\ f.arg = "stop" THEN [b EXCEPT !.tripped = FALSE] ELSE b
             fresh == [cleared EXCEPT !.quiet = 0]
  <2>1. cleared \in DriveBoards(Horizon)
    BY DEF DriveBoards
  <2> HIDE DEF cleared
  <2>2. fresh \in DriveBoards(Horizon)
    BY <1>2, <2>1 DEF DriveBoards
  <2> HIDE DEF fresh
  <2>3. /\ SwitchBrake(b, "stop") \in DriveBoards(Horizon)
        /\ f.cmd = "brake" => SwitchBrake(fresh, f.arg) \in DriveBoards(Horizon)
    BY <1>1, <2>2, SwitchBrakeDoes
  <2>5. f.cmd = "steer" => [fresh EXCEPT !.steer = f.arg] \in DriveBoards(Horizon)
    BY <1>1, <2>2 DEF DriveBoards
  <2>4. \/ DriveTakes(b, f) \in {b, fresh, SwitchBrake(b, "stop")}
        \/ f.cmd = "brake" /\ DriveTakes(b, f) = SwitchBrake(fresh, f.arg)
        \/ f.cmd = "steer" /\ DriveTakes(b, f) = [fresh EXCEPT !.steer = f.arg]
    BY DEF DriveTakes, cleared, fresh
  <2> QED
    BY <2>2, <2>3, <2>4, <2>5
<1>4. DriveAnswers(b, f, signal) \in LinesOf("drive")
  <2> DEFINE why == IF f.cmd = "angles" /\ ~signal THEN "NO_SIGNAL" ELSE WhyNot(b, f)
  <2>1. why \in {"", "TIMEOUT", "AT_LIMIT", "STALL", "WD_TRIPPED", "NO_SIGNAL"}
    BY DEF WhyNot, BlockReason
  <2>2. b.at \in Places /\ b.trips \in Nat
    BY DEF DriveBoards
  <2> DEFINE ok == why = ""
  <2>3. DriveAnswers(b, f, signal)
          = [cmd |-> f.cmd, ok |-> ok, why |-> why, duty |-> "zero", count |-> b.trips, at |-> b.at]
    BY DEF DriveAnswers
  <2>4. ok \in BOOLEAN
    OBVIOUS
  <2> HIDE DEF why, ok
  <2>5. DriveAnswers(b, f, signal) \in Lines
    <3>1. /\ f.cmd \in {"duty", "alive", "read", "brake", "steer", "gear", "angles", "trip"}
          /\ "zero" \in Duties /\ b.at \in Places \cup {"none"}
      BY <1>1, <2>2 DEF Duties
    <3>2. LineOf(f.cmd, ok, why, "zero", b.trips, b.at) \in Lines
      BY <2>1, <2>2, <2>4, <3>1, LineFits, ZenonT(40)
    <3> QED
      BY <2>3, <3>2 DEF LineOf
  <2>6. DriveAnswers(b, f, signal).at = b.at
    BY <2>3
  <2> QED
    BY <2>2, <2>5, <2>6 DEF LinesOf
<1> QED
  BY <1>3, <1>4

LEMMA DriveBoardAges ==
  ASSUME NEW b \in DriveBoards(Horizon)
  PROVE  /\ DriveAged(b, Horizon) \in DriveBoards(Horizon)
         /\ b.brake # "stop" => Stalled(b) \in DriveBoards(Horizon)
         /\ \A cmd \in {"brake", "trip"}, why \in {"", "STALL"} : Notice(b, cmd, why) \in LinesOf("drive")
<1>1. Horizon \in Nat /\ Silence \in Nat
  BY TimesAssumption, SilenceAssumption
<1>2. Moved(b) \in DriveBoards(Horizon)
  <2> DEFINE there == IF b.at = "between" THEN End[b.brake]
                      ELSE IF b.at = End[b.brake] THEN b.at ELSE "between"
             m == [b EXCEPT !.at = there, !.stall = "none"]
  <2>1. CASE b.brake = "stop" \/ b.stuck
    BY <2>1 DEF Moved
  <2>2. CASE ~(b.brake = "stop" \/ b.stuck)
    <3>1. there \in Places
      BY <2>2 DEF DriveBoards, Places, End
    <3> HIDE DEF there
    <3>2. m \in DriveBoards(Horizon)
      BY <3>1 DEF DriveBoards
    <3> HIDE DEF m
    <3>3. SwitchBrake(m, "stop") \in DriveBoards(Horizon)
      BY <3>2, SwitchBrakeDoes
    <3>4. Moved(b) \in {m, SwitchBrake(m, "stop")}
      BY <2>2 DEF Moved, m, there
    <3> QED
      BY <3>2, <3>3, <3>4
  <2> QED
    BY <2>1, <2>2
<1>3. DriveAged(b, Horizon) \in DriveBoards(Horizon)
  <2> DEFINE m == Moved(b)
             q == IF IsMoving(m) THEN Past(m.quiet, Silence) ELSE 0
             o == IF m.brake = "stop" THEN 0 ELSE Past(m.on, Horizon)
             a == [m EXCEPT !.quiet = q, !.on = o]
  <2>1. DriveAged(b, Horizon) \in {a, AllOff(a)}
    BY DEF DriveAged
  <2> HIDE DEF m
  <2>2. q \in 0 .. Silence + 1 /\ o \in 0 .. Horizon + 1
    BY <1>1, <1>2 DEF DriveBoards, Past, m
  <2> HIDE DEF q, o
  <2>3. a \in DriveBoards(Horizon)
    BY <1>2, <2>2 DEF DriveBoards, m
  <2> HIDE DEF a
  <2>4. AllOff(a) \in DriveBoards(Horizon)
    <3> DEFINE s == SwitchBrake(a, "stop")
    <3>1. s \in DriveBoards(Horizon)
      BY <2>3, SwitchBrakeDoes
    <3> HIDE DEF s
    <3>2. s.trips + 1 \in Nat
      BY <3>1 DEF DriveBoards
    <3>3. [s EXCEPT !.steer = "stop", !.tripped = TRUE, !.trips = @ + 1] \in DriveBoards(Horizon)
      BY <3>1, <3>2 DEF DriveBoards
    <3> QED
      BY <3>3 DEF AllOff, s
  <2> QED
    BY <2>1, <2>3, <2>4
<1>4. b.brake # "stop" => Stalled(b) \in DriveBoards(Horizon)
  <2> DEFINE s == SwitchBrake(b, "stop")
  <2>1. s \in DriveBoards(Horizon) /\ b.brake \in {"stop", "apply", "release"}
    BY SwitchBrakeDoes DEF DriveBoards
  <2> HIDE DEF s
  <2>2. b.brake # "stop" => [s EXCEPT !.stall = b.brake] \in DriveBoards(Horizon)
    BY <2>1 DEF DriveBoards
  <2> QED
    BY <2>2 DEF Stalled, s
<1>5. \A cmd \in {"brake", "trip"}, why \in {"", "STALL"} : Notice(b, cmd, why) \in LinesOf("drive")
  BY DEF Notice, LinesOf, Lines, Duties, DriveBoards
<1> QED
  BY <1>3, <1>4, <1>5

------------------------------------------------------------------------------
(* The rig.                                                                   *)

\* What every state of the rig is made of; TypeOK is a part of it.
AroundTyped ==
    /\ DOMAIN lines = Links /\ \A l \in Links : lines[l] \in Seq(LinesOf(l))
    /\ adapter \in Adapters
    /\ call \in Calls \cup {Idle}
    /\ throttle \in ThrottleBoards
    /\ drive \in DriveBoards(Horizon)
    /\ reading \subseteq Links /\ slow \subseteq Links \cup {"bridge"}
    /\ hung \in BOOLEAN
    /\ mishaps \in 0 .. MaxMishaps

RigTyped == Typed(c) /\ AroundTyped

\* The bridge's call in hand is of this unit of time; a wire holds nothing that
\* keeps the throttle on once the bridge has been silent for longer than the
\* heartbeat's window; and a throttle that is on was kept on by a frame that came
\* within it.
Commanded ==
    /\ call # Idle => c.hb = 0
    /\ c.wire["accel"] \in Seq(Harmless(c))
    /\ throttle.duty = "positive" =>
          throttle.quiet <= Silence /\ c.hb <= Heartbeat + throttle.quiet

RigInv == RigTyped /\ Sound(c) /\ Commanded

\* A wire grows by frames that do no harm.
LEMMA GrowsHarmless ==
  ASSUME NEW k, Typed(k), NEW d, NEW F, Plain(k, d, F), k.wire["accel"] \in Seq(Harmless(k)),
         F \subseteq Harmless(k)
  PROVE  d.wire["accel"] \in Seq(Harmless(d))
<1> DEFINE v == k.wire["accel"]
           w == d.wire["accel"]
           H == Harmless(k)
<1>1. Harmless(d) = H
  BY DEF Plain, Harmless, HostLive
<1>2. Extends(v, w, F) /\ v \in Seq(H) /\ w \in Seq(AccelFrames)
  BY TypedWires DEF Plain
<1> HIDE DEF v, w, H
<1>3. F \subseteq H
  BY DEF H
<1>4. \A i \in 1 .. Len(w) : w[i] \in H
  <2> SUFFICES ASSUME NEW i \in 1 .. Len(w) PROVE w[i] \in H
    OBVIOUS
  <2>1. CASE i \in 1 .. Len(v)
    BY <1>2, <2>1 DEF Extends
  <2>2. CASE i \in Len(v) + 1 .. Len(w)
    BY <1>2, <1>3, <2>2 DEF Extends
  <2> QED
    BY <1>2, <2>1, <2>2
<1>5. w \in Seq(H)
  BY <1>2, <1>4
<1> QED
  BY <1>1, <1>5 DEF w

\* No frame of d's that was not on the wire v starts the brake.
NoStart(v, d) ==
    \A i \in DOMAIN d.wire["drive"] : i > Len(v) => d.wire["drive"][i].arg # "apply"

LEMMA CalmStartsNothing ==
  ASSUME NEW k, Typed(k), NEW d, NEW F, Calm(k, d, F), k.stopApply # Never,
         NEW v, Len(v) >= Len(k.wire["drive"]), Len(v) \in Nat
  PROVE  NoStart(v, d)
<1>1. /\ Extends(k.wire["drive"], d.wire["drive"], DriveFrames \ {ApplyFrame})
      /\ d.wire["drive"] \in Seq(DriveFrames) /\ k.wire["drive"] \in Seq(DriveFrames)
  BY TypedWires DEF Calm, Fair, Allowed
<1>2. ASSUME NEW f \in DriveFrames, f.arg = "apply" PROVE f = ApplyFrame
  <2>1. f \in [cmd : {"brake"}, arg : {"stop", "apply", "release"}]
    BY <1>2 DEF DriveFrames
  <2>2. f = [cmd |-> f.cmd, arg |-> f.arg] /\ f.cmd = "brake"
    BY <2>1
  <2> QED
    BY <1>2, <2>2 DEF ApplyFrame, Frame
<1> SUFFICES ASSUME NEW i \in DOMAIN d.wire["drive"], i > Len(v)
             PROVE  d.wire["drive"][i].arg # "apply"
  BY DEF NoStart
<1>3. i \in Len(k.wire["drive"]) + 1 .. Len(d.wire["drive"])
  BY <1>1
<1>4. d.wire["drive"][i] \in DriveFrames \ {ApplyFrame}
  BY <1>1, <1>3 DEF Extends
<1> QED
  BY <1>2, <1>4

\* What a step does to the controls: no more than its own caller may ask for.
Controlled ==
    /\ Typed(c') /\ Sound(c')
    /\ c'.wire["accel"] \in Seq(Harmless(c'))
    /\ c.stopApply # Never => NoStart(c.wire["drive"], c') \/ Pressed

\* A step that does no more to the controls than k, which is c with a wire shortened,
\* or a field set, allows.
Resembles(k) ==
    /\ Typed(k) /\ k.stopApply = c.stopApply
    /\ Len(k.wire["drive"]) <= Len(c.wire["drive"])
    /\ k.wire["accel"] \in Seq(Harmless(k))

LEMMA CalmIsControlled ==
  ASSUME NEW k, Resembles(k), NEW F, Calm(k, c', F), F \subseteq Harmless(k), Sound(c'), Typed(c)
  PROVE  Controlled /\ c'.hb = k.hb
<1>1. Typed(c') /\ c'.hb = k.hb /\ Plain(k, c', F)
  BY DEF Calm, Fair, Plain
<1>2. c'.wire["accel"] \in Seq(Harmless(c'))
  BY <1>1, GrowsHarmless DEF Resembles
<1>3. c.stopApply # Never => NoStart(c.wire["drive"], c')
  <2>1. c.wire["drive"] \in Seq(DriveFrames)
    BY TypedWires
  <2> QED
    BY <2>1, CalmStartsNothing DEF Resembles
<1> QED
  BY <1>1, <1>2, <1>3 DEF Controlled

\* A part of apply(), and the other calls of the adapter.
LEMMA AdaptsIsControlled ==
  ASSUME NEW k, Resembles(k), NEW y, Adapts([c |-> k, a |-> adapter], y), Both(y), Typed(c),
         HostLive(k)
  PROVE  Controlled /\ c'.hb = k.hb /\ adapter' \in Adapters
<1>1. /\ y.a \in Adapters /\ Sound(y.c) /\ Fair(k, y.c, AccelFrames)
      /\ Calm(k, y.c, AccelFrames) \/ (adapter.brake # "held" /\ y.a.brake = "held")
  BY DEF Adapts
<1>2. c' = y.c /\ adapter' = y.a
  BY DEF Both
<1>3. AccelFrames \subseteq Harmless(k)
  BY DEF Harmless
<1>4. CASE Calm(k, y.c, AccelFrames)
  BY <1>1, <1>2, <1>3, <1>4, CalmIsControlled
<1>5. CASE adapter.brake # "held" /\ y.a.brake = "held"
  <2>1. Typed(c') /\ c'.hb = k.hb /\ Plain(k, c', AccelFrames) /\ Pressed
    BY <1>1, <1>2, <1>5 DEF Fair, Plain, Pressed
  <2>2. c'.wire["accel"] \in Seq(Harmless(c'))
    BY <1>3, <2>1, GrowsHarmless DEF Resembles
  <2> QED
    BY <1>1, <1>2, <2>1, <2>2 DEF Controlled
<1> QED
  BY <1>1, <1>4, <1>5

LEMMA ControlsResemble ==
  ASSUME RigInv
  PROVE  Resembles(c) /\ Typed(c) /\ Sound(c) /\ adapter \in Adapters
<1>1. Typed(c) /\ c.wire["accel"] \in Seq(Harmless(c)) /\ Sound(c) /\ adapter \in Adapters
  BY DEF RigInv, RigTyped, AroundTyped, Commanded
<1>2. c.wire["drive"] \in Seq(DriveFrames)
  BY <1>1, TypedWires
<1> QED
  BY <1>1, <1>2 DEF Resembles

\* apply() begins with the heartbeat.
LEMMA FedResembles ==
  ASSUME RigInv
  PROVE  Resembles(Fed) /\ Sound(Fed) /\ HostLive(Fed) /\ Fed.hb = 0
<1>1. Same(c, Fed, {"hb"}) /\ Fed.hb = 0
  BY ControlsResemble DEF Fed, Same, Typed, Fields
<1>2. 0 \in 0 .. Horizon /\ 0 <= Heartbeat
  BY TimesAssumption
<1>3. Typed(Fed) /\ HostLive(Fed)
  BY <1>1, <1>2, ControlsResemble DEF Same, Typed, Ports, Scalars, Fields, HostLive
<1>4. Fed.wire = c.wire /\ Fed.stopApply = c.stopApply /\ Sound(Fed)
  BY <1>1, ControlsResemble DEF Same, Sound, Fields
<1>5. Fed.wire["accel"] \in Seq(Harmless(Fed))
  BY <1>3, TypedWires DEF Harmless
<1>6. c.wire["drive"] \in Seq(DriveFrames)
  BY ControlsResemble, TypedWires
<1> QED
  BY <1>1, <1>3, <1>4, <1>5, <1>6 DEF Resembles

\* A step that leaves the throttle board alone and turns no age up.
LEMMA Assembled ==
  ASSUME RigInv, Controlled, c'.hb \in {0, c.hb}, throttle' = throttle, AroundTyped',
         call' # Idle => c'.hb = 0
  PROVE  RigInv'
<1>1. c.hb \in Nat /\ c'.hb <= c.hb
  BY TimesAssumption DEF RigInv, RigTyped, Typed, Scalars
<1>2. throttle.duty = "positive" => throttle.quiet <= Silence /\ c.hb <= Heartbeat + throttle.quiet
  BY DEF RigInv, Commanded
<1>3. throttle'.duty = "positive" => throttle'.quiet <= Silence /\ c'.hb <= Heartbeat + throttle'.quiet
  <2>1. throttle.quiet \in Nat /\ Heartbeat \in Nat /\ c'.hb \in Nat
    BY <1>1, TimesAssumption, SilenceAssumption DEF RigInv, RigTyped, AroundTyped, ThrottleBoards
  <2> QED
    BY <1>1, <1>2, <2>1
<1>4. Commanded'
  BY <1>3 DEF Commanded, Controlled
<1> QED
  BY <1>4 DEF RigInv, RigTyped, Controlled

\* What the caller has still to do.
PartNames == {"gear", "brake", "throttle", "steer"}

LEMMA PartsAre == Parts \in Seq(PartNames) /\ Len(Parts) = 4
BY DEF Parts, PartNames

LEMMA PartsLeft == Parts \in {SubSeq(Parts, i, 4) : i \in 1 .. 4}
<1>1. SubSeq(Parts, 1, 4) = Parts
  BY PartsAre, SubSeqFull
<1> QED
  BY <1>1

LEMMA SuffixLength ==
  ASSUME NEW S, NEW s \in Seq(S), NEW i \in 1 .. Len(s)
  PROVE  Len(SubSeq(s, i, Len(s))) = Len(s) - i + 1
<1>1. i \in Int /\ Len(s) \in Int /\ \A j \in i .. Len(s) : s[j] \in S
  OBVIOUS
<1>2. Len(SubSeq(s, i, Len(s))) = IF i <= Len(s) THEN Len(s) - i + 1 ELSE 0
  BY <1>1, SubSeqProperties
<1> QED
  BY <1>2

LEMMA TodoTaken ==
  ASSUME NEW T, NEW C, NEW a \in [todo : T, cmd : C], Tail(a.todo) \in T
  PROVE  [a EXCEPT !.todo = Tail(@)] \in [todo : T, cmd : C]
OBVIOUS

LEMMA PartsGoOn ==
  ASSUME NEW i \in 1 .. 4
  PROVE  LET t == SubSeq(Parts, i, 4)
         IN  /\ Head(t) \in PartNames
             /\ Len(t) # 1 => Tail(t) \in {SubSeq(Parts, j, 4) : j \in 1 .. 4}
<1> DEFINE t == SubSeq(Parts, i, 4)
           U(j) == SubSeq(Parts, j, 4)
<1>1. Head(t) = Parts[i] /\ Tail(t) = U(i + 1)
  BY PartsAre, HeadTailOfSubSeq
<1>2. Len(t) = 4 - i + 1
  <2> DEFINE n == Len(Parts)
  <2>1. i \in 1 .. n /\ n = 4 /\ Parts \in Seq(PartNames)
    BY PartsAre
  <2>2. Len(SubSeq(Parts, i, n)) = n - i + 1
    BY <2>1, SuffixLength
  <2> QED
    BY <2>1, <2>2, Zenon
<1> HIDE DEF t, U
<1>3. Len(t) # 1 => i + 1 \in 1 .. 4
  BY <1>2
<1>4. Head(t) \in PartNames
  BY <1>1, PartsAre, SMTT(30)
<1>5. Len(t) # 1 => Tail(t) \in {U(j) : j \in 1 .. 4}
  BY <1>1, <1>3
<1> QED
  BY <1>4, <1>5 DEF t, U

LEMMA CallsGoOn ==
  ASSUME NEW a \in Calls
  PROVE  /\ Head(a.todo) \in PartNames /\ a.cmd \in Commands
         /\ Len(a.todo) # 1 => [a EXCEPT !.todo = Tail(@)] \in Calls
<1> DEFINE T == {SubSeq(Parts, i, 4) : i \in 1 .. 4}
           t == a.todo
<1>1. Calls = [todo : T, cmd : Commands]
  BY DEF Calls
<1> HIDE DEF T, t
<1>2. a = [todo |-> t, cmd |-> a.cmd] /\ t \in T /\ a.cmd \in Commands
  BY <1>1 DEF t
<1>3. PICK i \in 1 .. 4 : t = SubSeq(Parts, i, 4)
  BY <1>2 DEF T
<1>4. Head(t) \in PartNames /\ (Len(t) # 1 => Tail(t) \in T)
  BY <1>3, PartsGoOn DEF T
<1>5. Tail(t) \in T => [a EXCEPT !.todo = Tail(@)] \in [todo : T, cmd : Commands]
  BY <1>1, TodoTaken DEF t
<1>6. Len(t) # 1 => [a EXCEPT !.todo = Tail(@)] \in Calls
  BY <1>1, <1>4, <1>5
<1> QED
  BY <1>2, <1>4, <1>6 DEF t

\* A step is good when it keeps the invariant and starts the brake in a stop's episode
\* only at the operator's press or after the episode's end.
Good ==
    /\ RigInv'
    /\ \/ Resume \/ HumanClears \/ c.stopApply = Never
       \/ NoStart(c.wire["drive"], c') \/ Pressed

LEMMA CommandDoes ==
  ASSUME RigInv, NEW cmd \in Commands, Command(cmd)
  PROVE  Good
<1>1. CASE "bridge" \in slow
  <2>1. c' = Fed /\ adapter' = adapter /\ call' = [todo |-> Parts, cmd |-> cmd]
    BY <1>1 DEF Command
  <2>2. Calm(Fed, Fed, {}) /\ {} \subseteq Harmless(Fed)
    BY FedResembles, CalmSelf DEF Resembles
  <2>3. Controlled /\ c'.hb = 0
    BY <2>1, <2>2, FedResembles, ControlsResemble, CalmIsControlled
  <2>4. call' \in Calls
    BY <2>1, PartsLeft DEF Calls
  <2>5. AroundTyped'
    BY <2>1, <2>4 DEF RigInv, RigTyped, AroundTyped, Command
  <2> QED
    BY <2>3, <2>5, Assembled DEF Command, Controlled, Good
<1>2. CASE ~("bridge" \in slow)
  <2> DEFINE x == [c |-> Fed, a |-> adapter]
             y == Applied(x, cmd)
  <2>1. Both(y) /\ call' = Idle
    BY <1>2 DEF Command
  <2>2. Adapts(x, y)
    BY FedResembles, ControlsResemble, AppliedDoes DEF Resembles
  <2> HIDE DEF y
  <2>3. Controlled /\ c'.hb = 0 /\ adapter' \in Adapters
    BY <2>1, <2>2, FedResembles, ControlsResemble, AdaptsIsControlled
  <2>4. AroundTyped'
    BY <2>1, <2>3 DEF RigInv, RigTyped, AroundTyped, Command
  <2> QED
    BY <2>1, <2>3, <2>4, Assembled DEF Command, Controlled, Good
<1> QED
  BY <1>1, <1>2

LEMMA CallGoesOnDoes ==
  ASSUME RigInv, CallGoesOn
  PROVE  Good
<1> DEFINE x == [c |-> c, a |-> adapter]
           y == Try(Head(call.todo), x, call.cmd)
<1>1. call \in Calls /\ c.hb = 0
  BY DEF CallGoesOn, RigInv, RigTyped, AroundTyped, Commanded
<1>2. Head(call.todo) \in {"gear", "brake", "throttle", "steer"} /\ call.cmd \in Commands
  BY <1>1, CallsGoOn DEF PartNames
<1>3. Adapts(x, y)
  BY <1>2, ControlsResemble, TryDoes
<1> HIDE DEF y
<1>4. Both(y) /\ HostLive(c)
  BY <1>1, TimesAssumption DEF CallGoesOn, HostLive, x, y
<1>5. Controlled /\ c'.hb = 0 /\ adapter' \in Adapters
  BY <1>1, <1>3, <1>4, ControlsResemble, AdaptsIsControlled
<1>6. call' \in Calls \cup {Idle}
  BY <1>1, CallsGoOn DEF CallGoesOn
<1>7. AroundTyped'
  BY <1>5, <1>6 DEF RigInv, RigTyped, AroundTyped, CallGoesOn
<1> QED
  BY <1>5, <1>7, Assembled DEF CallGoesOn, Controlled, Good

\* safe_stop(), from a bridge that feeds the heartbeat or one that lost its driver.
LEMMA StopDoes ==
  ASSUME RigInv, NEW k, k \in {c, Fed}, Stop(k)
  PROVE  Good
<1> DEFINE x == [c |-> k, a |-> adapter]
           d == SafeStop(k, TRUE)
           y == Stopping(x)
<1>1. Resembles(k) /\ Sound(k) /\ k.hb \in {0, c.hb}
  BY FedResembles, ControlsResemble
<1>2. Calm(k, d, {Zero}) /\ Rested(d)
  BY <1>1, SafeStopDoes DEF Resembles, Zero
<1>3. Adapts(x, y)
  BY <1>1, ControlsResemble, StoppingDoes DEF Resembles
<1>4. Both(y) /\ y.c = d
  BY DEF Stop, Stopping
<1> HIDE DEF y, d
<1>5. c' = d /\ adapter' = y.a /\ y.a \in Adapters /\ Sound(d)
  BY <1>2, <1>3, <1>4 DEF Both, Adapts
<1>6. Controlled /\ c'.hb = k.hb
  BY <1>1, <1>2, <1>5, ZeroIsHarmless, ControlsResemble, CalmIsControlled
<1>7. AroundTyped' /\ call' = Idle
  BY <1>5 DEF RigInv, RigTyped, AroundTyped, Stop
<1> QED
  BY <1>1, <1>6, <1>7, Assembled DEF Stop, Controlled, Good

\* The latch goes, by resume() or clear_faults().
LEMMA LatchGoes ==
  ASSUME RigInv, Plain(c, c', {Zero}), Sound(c'), adapter' \in Adapters, Resume \/ HumanClears,
         UNCHANGED <<call, throttle, drive, lines, reading, slow, hung, mishaps>>
  PROVE  Good
<1>1. Typed(c') /\ c'.hb = c.hb
  BY DEF Plain
<1>2. c'.wire["accel"] \in Seq(Harmless(c'))
  BY ControlsResemble, ZeroIsHarmless, GrowsHarmless DEF Resembles
<1>3. throttle.duty = "positive" => throttle.quiet <= Silence /\ c.hb <= Heartbeat + throttle.quiet
  BY DEF RigInv, Commanded
<1>4. Commanded'
  BY <1>1, <1>2, <1>3 DEF RigInv, Commanded
<1> QED
  BY <1>1, <1>4 DEF RigInv, RigTyped, AroundTyped, Good

LEMMA ResumeDoes ==
  ASSUME RigInv, Resume
  PROVE  Good
<1>1. Plain(c, c', {Zero}) /\ Sound(c')
  BY ControlsResemble, UnlatchedDoes DEF Resume, CanResume
<1>2. adapter' \in Adapters
  BY ControlsResemble DEF Resume, Adapters, Duties
<1> QED
  BY <1>1, <1>2, LatchGoes DEF Resume

LEMMA HumanClearsDoes ==
  ASSUME RigInv, HumanClears
  PROVE  Good
<1>1. Plain(c, c', {Zero}) /\ Sound(c')
  BY ControlsResemble, ClearFaultsDoes DEF HumanClears
<1> QED
  BY <1>1, ControlsResemble, LatchGoes DEF HumanClears

LEMMA TickRunsDoes ==
  ASSUME RigInv, TickRuns
  PROVE  Good
<1>1. Calm(c, c', Harmless(c)) /\ Sound(c')
  BY ControlsResemble, TickDoes DEF TickRuns
<1>2. Controlled /\ c'.hb = c.hb
  BY <1>1, ControlsResemble, CalmIsControlled
<1>3. AroundTyped' /\ call' = call
  BY DEF RigInv, RigTyped, AroundTyped, TickRuns
<1>4. call' # Idle => c'.hb = 0
  BY <1>2, <1>3 DEF RigInv, Commanded
<1> QED
  BY <1>2, <1>3, <1>4, Assembled DEF TickRuns, Controlled, Good

------------------------------------------------------------------------------
(* What the links carry.                                                      *)

LEMMA HeardDoes ==
  ASSUME NEW k, Typed(k), Sound(k), NEW l \in Links, NEW r \in LinesOf(l)
  PROVE  Answered(k, Heard(k, l, r))
BY OnLineDoes, SelfAnswers DEF Heard

LEMMA LinesKept ==
  ASSUME RigInv
  PROVE  /\ DOMAIN lines = Links
         /\ \A l \in Links :
               /\ lines[l] \in Seq(LinesOf(l))
               /\ lines[l] # <<>> => Head(lines[l]) \in LinesOf(l) /\ Tail(lines[l]) \in Seq(LinesOf(l))
BY HeadTailProperties DEF RigInv, RigTyped, AroundTyped

\* A line more, or none left.
LEMMA LinesFit ==
  ASSUME RigInv, NEW l \in Links, NEW s \in Seq(LinesOf(l))
  PROVE  /\ DOMAIN [lines EXCEPT ![l] = s] = Links
         /\ \A m \in Links : [lines EXCEPT ![l] = s][m] \in Seq(LinesOf(m))
BY LinesKept

LEMMA QueuedDoes ==
  ASSUME RigInv, NEW l \in Links, NEW r \in LinesOf(l)
  PROVE  DOMAIN Queued(l, r) = Links /\ \A m \in Links : Queued(l, r)[m] \in Seq(LinesOf(m))
<1>1. lines[l] \in Seq(LinesOf(l)) /\ DOMAIN lines = Links
  BY LinesKept
<1>2. Append(lines[l], r) \in Seq(LinesOf(l))
  BY <1>1
<1> QED
  BY <1>2, LinesKept, LinesFit DEF Queued

\* A frame is taken off its wire.
LEMMA UntakenDoes ==
  ASSUME RigInv, NEW l \in Links, c.wire[l] # <<>>
  PROVE  /\ Resembles(Untaken(l)) /\ Sound(Untaken(l)) /\ Untaken(l).hb = c.hb
         /\ Untaken(l).broken = c.broken
         /\ Harmless(Untaken(l)) = Harmless(c)
         /\ Head(c.wire[l]) \in FramesOf(l)
         /\ l = "accel" => Head(c.wire[l]) \in Harmless(c)
<1> DEFINE d == Untaken(l)
           v == c.wire[l]
<1>1. Typed(c) /\ Sound(c) /\ v \in Seq(FramesOf(l)) /\ c.wire["accel"] \in Seq(Harmless(c))
      /\ DOMAIN c.wire = Links
  BY ControlsResemble DEF Resembles, Typed, Ports
<1>2. Same(c, d, {"wire"}) /\ d.wire = [c.wire EXCEPT ![l] = Tail(@)]
  BY <1>1 DEF Untaken, Same, Typed, Fields
<1> HIDE DEF d
<1>3. Head(v) \in FramesOf(l) /\ Tail(v) \in Seq(FramesOf(l)) /\ Len(Tail(v)) = Len(v) - 1 /\ Len(v) \in Nat
  BY <1>1, HeadTailProperties
<1>4. l = "accel" => Head(v) \in Harmless(c) /\ Tail(v) \in Seq(Harmless(c))
  BY <1>1, HeadTailProperties
<1>5. d.wire[l] = Tail(v) /\ DOMAIN d.wire = Links /\ \A m \in Links \ {l} : d.wire[m] = c.wire[m]
  BY <1>1, <1>2
<1>6. Typed(d)
  <2>1. \A m \in Links : d.wire[m] \in Seq(FramesOf(m))
    BY <1>1, <1>3, <1>5 DEF Typed, Ports
  <2>2. \A x \in Fields \ {"wire"} : d[x] = c[x]
    BY <1>2 DEF Same
  <2>3. Ports(d)
    BY <1>1, <1>5, <2>1, <2>2 DEF Typed, Ports, Fields
  <2>4. Scalars(d)
    BY <1>1, <2>2, ScalarsKept DEF Typed
  <2> QED
    BY <1>2, <2>3, <2>4 DEF Typed, Same
<1>7. d.hb = c.hb /\ d.stopApply = c.stopApply /\ d.broken = c.broken /\ Sound(d)
  BY <1>1, <1>2 DEF Same, Fields, Sound
<1>8. Harmless(d) = Harmless(c)
  BY <1>7 DEF Harmless, HostLive
<1>9. d.wire["accel"] \in Seq(Harmless(d))
  BY <1>1, <1>4, <1>5, <1>8 DEF Links
<1>10. Len(d.wire["drive"]) <= Len(c.wire["drive"])
  <2>1. CASE l = "drive"
    <3>1. d.wire["drive"] = Tail(v) /\ c.wire["drive"] = v
      BY <1>5, <2>1
    <3> HIDE DEF v
    <3> QED
      BY <1>3, <3>1
  <2>2. CASE l # "drive"
    <3>1. c.wire["drive"] \in Seq(DriveFrames)
      BY <1>1, TypedWires
    <3> QED
      BY <1>5, <2>2, <3>1 DEF Links
  <2> QED
    BY <2>1, <2>2
<1> QED
  BY <1>3, <1>4, <1>6, <1>7, <1>8, <1>9, <1>10 DEF Resembles, d

\* A line answers what was taken, or comes of the board's own accord.
LEMMA AnswerDoes ==
  ASSUME RigInv, NEW k, Resembles(k), Sound(k), k.hb = c.hb, NEW l \in Links, NEW r \in LinesOf(l), Answer(l, k, r)
  PROVE  /\ Controlled /\ c'.hb = c.hb
         /\ DOMAIN lines' = Links /\ \A m \in Links : lines'[m] \in Seq(LinesOf(m))
<1>1. Answered(k, Heard(k, l, r))
  BY HeardDoes DEF Resembles
<1>2. Calm(k, c', {Zero}) /\ Sound(c')
  BY <1>1 DEF Answer, Answered
<1>3. Controlled /\ c'.hb = c.hb
  BY <1>2, ControlsResemble, ZeroIsHarmless, CalmIsControlled
<1> QED
  BY <1>3, QueuedDoes DEF Answer

LEMMA ReadDoes ==
  ASSUME RigInv, NEW l \in Links, Read(l)
  PROVE  Good
<1>1. Head(lines[l]) \in LinesOf(l) /\ Tail(lines[l]) \in Seq(LinesOf(l))
  BY LinesKept DEF Read
<1>2. Calm(c, c', {Zero}) /\ Sound(c')
  BY <1>1, ControlsResemble, OnLineDoes DEF Read, Answered
<1>3. Controlled /\ c'.hb = c.hb
  BY <1>2, ControlsResemble, ZeroIsHarmless, CalmIsControlled
<1>4. lines' = [lines EXCEPT ![l] = Tail(lines[l])]
  BY DEF Read
<1>5. AroundTyped' /\ call' = call
  BY <1>1, <1>4, LinesFit DEF RigInv, RigTyped, AroundTyped, Read
<1>6. call' # Idle => c'.hb = 0
  BY <1>3, <1>5 DEF RigInv, Commanded
<1> QED
  BY <1>3, <1>5, <1>6, Assembled DEF Read, Controlled, Good

LEMMA ReaderEndsDoes ==
  ASSUME RigInv, NEW l \in Links, ReaderEnds(l)
  PROVE  Good
<1>1. Calm(c, c', {Zero}) /\ Sound(c')
  BY ControlsResemble, LinkLostDoes DEF ReaderEnds, Answered
<1>2. Controlled /\ c'.hb = c.hb
  BY <1>1, ControlsResemble, ZeroIsHarmless, CalmIsControlled
<1>3. AroundTyped' /\ call' = call
  BY DEF RigInv, RigTyped, AroundTyped, ReaderEnds
<1>4. call' # Idle => c'.hb = 0
  BY <1>2, <1>3 DEF RigInv, Commanded
<1> QED
  BY <1>2, <1>3, <1>4, Assembled DEF ReaderEnds, Controlled, Good

\* The throttle board takes a frame of its wire: one that did no harm to send does none
\* to take.
LEMMA TakenRests ==
  ASSUME RigInv, NEW f, f \in AccelFrames, f \in Harmless(c), throttle' = ThrottleTakes(throttle, f),
         c'.hb = c.hb
  PROVE  throttle'.duty = "positive" =>
            throttle'.quiet <= Silence /\ c'.hb <= Heartbeat + throttle'.quiet
<1>1. throttle.duty = "positive" => throttle.quiet <= Silence /\ c.hb <= Heartbeat + throttle.quiet
  BY DEF RigInv, Commanded
<1>2. /\ throttle \in ThrottleBoards /\ throttle.quiet \in 0 .. Silence + 1
      /\ c.hb \in Nat /\ Heartbeat \in Nat /\ Silence \in Nat
  BY TimesAssumption, SilenceAssumption DEF RigInv, RigTyped, AroundTyped, Typed, Scalars, ThrottleBoards
<1>3. CASE f.cmd = "read"
  BY <1>1, <1>3 DEF ThrottleTakes, Refreshes
<1>4. CASE f.cmd = "duty" /\ f.arg = "zero"
  <2>1. throttle'.duty = "zero"
    BY <1>2, <1>4 DEF ThrottleTakes, Refreshes, RefusesDuty, ThrottleBoards
  <2> QED
    BY <2>1
<1>5. CASE f.cmd \in {"alive", "duty"} /\ HostLive(c)
  <2> DEFINE r == [throttle EXCEPT !.quiet = 0]
  <2>1. throttle'.quiet = 0
    BY <1>2, <1>5 DEF ThrottleTakes, Refreshes, ThrottleBoards
  <2> QED
    BY <1>2, <1>5, <2>1 DEF HostLive
<1>6. f.cmd \in {"read", "alive", "duty"}
  <2>1. \A g \in AccelFrames : g.cmd \in {"read", "alive", "duty"}
    BY DEF AccelFrames
  <2> QED
    BY <2>1
<1>7. ~HostLive(c) => f.cmd = "read" \/ (f.cmd = "duty" /\ f.arg = "zero")
  <2>1. ~HostLive(c) => f = Zero \/ f = Frame("read", "")
    BY DEF Harmless
  <2>2. Zero.cmd = "duty" /\ Zero.arg = "zero" /\ Frame("read", "").cmd = "read"
    BY DEF Zero, Frame
  <2> QED
    BY <2>1, <2>2
<1> QED
  BY <1>3, <1>4, <1>5, <1>6, <1>7

\* A step that gives the throttle board a frame.
LEMMA AssembledTaking ==
  ASSUME RigInv, Controlled, c'.hb = c.hb, NEW f, f \in AccelFrames, f \in Harmless(c),
         throttle' = ThrottleTakes(throttle, f), AroundTyped', call' = call
  PROVE  RigInv'
<1>1. throttle'.duty = "positive" => throttle'.quiet <= Silence /\ c'.hb <= Heartbeat + throttle'.quiet
  BY TakenRests
<1>2. Commanded'
  BY <1>1 DEF RigInv, Commanded, Controlled
<1> QED
  BY <1>2 DEF RigInv, RigTyped, Controlled

LEMMA ThrottleBoardTakesDoes ==
  ASSUME RigInv, ThrottleBoardTakes
  PROVE  Good
<1> DEFINE f == Head(c.wire["accel"])
           k == Untaken("accel")
           r == ThrottleAnswers(throttle, f)
<1>1. "accel" \in Links /\ c.wire["accel"] # <<>>
  BY DEF ThrottleBoardTakes, Links
<1>2. /\ Resembles(k) /\ Sound(k) /\ k.hb = c.hb
      /\ f \in AccelFrames /\ f \in Harmless(c)
  BY <1>1, UntakenDoes DEF FramesOf
<1>3. throttle' = ThrottleTakes(throttle, f) /\ Answer("accel", k, r)
  BY DEF ThrottleBoardTakes
<1>4. throttle \in ThrottleBoards
  BY DEF RigInv, RigTyped, AroundTyped
<1> HIDE DEF f, k
<1>5. r \in LinesOf("accel") /\ throttle' \in ThrottleBoards
  BY <1>2, <1>3, <1>4, ThrottleBoardDoes
<1> HIDE DEF r
<1>6. /\ Controlled /\ c'.hb = c.hb
      /\ DOMAIN lines' = Links /\ \A m \in Links : lines'[m] \in Seq(LinesOf(m))
  BY <1>1, <1>2, <1>3, <1>5, AnswerDoes
<1>7. AroundTyped' /\ call' = call
  BY <1>5, <1>6 DEF RigInv, RigTyped, AroundTyped, ThrottleBoardTakes
<1>8. RigInv'
  BY <1>2, <1>3, <1>6, <1>7, AssembledTaking
<1> QED
  BY <1>6, <1>8 DEF Good, Controlled

LEMMA DriveBoardTakesDoes ==
  ASSUME RigInv, DriveBoardTakes
  PROVE  Good
<1> DEFINE f == Head(c.wire["drive"])
           k == Untaken("drive")
           r == DriveAnswers(drive, f, TRUE)
<1>1. "drive" \in Links /\ c.wire["drive"] # <<>>
  BY DEF DriveBoardTakes, Links
<1>2. Resembles(k) /\ Sound(k) /\ k.hb = c.hb /\ f \in DriveFrames
  BY <1>1, UntakenDoes DEF FramesOf
<1>3. drive' = DriveTakes(drive, f) /\ Answer("drive", k, r)
  BY DEF DriveBoardTakes
<1>4. drive \in DriveBoards(Horizon) /\ TRUE \in BOOLEAN
  BY DEF RigInv, RigTyped, AroundTyped
<1> HIDE DEF f, k
<1>5. r \in LinesOf("drive") /\ drive' \in DriveBoards(Horizon)
  BY <1>2, <1>3, <1>4, DriveBoardDoes
<1> HIDE DEF r
<1>6. /\ Controlled /\ c'.hb = c.hb
      /\ DOMAIN lines' = Links /\ \A m \in Links : lines'[m] \in Seq(LinesOf(m))
  BY <1>1, <1>2, <1>3, <1>5, AnswerDoes
<1>7. AroundTyped' /\ call' = call /\ throttle' = throttle
  BY <1>5, <1>6 DEF RigInv, RigTyped, AroundTyped, DriveBoardTakes
<1>8. call' # Idle => c'.hb = 0
  BY <1>6, <1>7 DEF RigInv, Commanded
<1>9. RigInv'
  BY <1>6, <1>7, <1>8, Assembled
<1> QED
  BY <1>6, <1>9 DEF Good, Controlled

LEMMA BefallsDoes ==
  ASSUME RigInv, NEW kind, Befalls(kind)
  PROVE  mishaps' \in 0 .. MaxMishaps
<1>1. mishaps \in 0 .. MaxMishaps /\ MaxMishaps \in Nat
  BY RigAssumption DEF RigInv, RigTyped, AroundTyped
<1>2. mishaps < MaxMishaps /\ mishaps' = mishaps + 1
  BY DEF Befalls
<1> QED
  BY <1>1, <1>2

LEMMA SignalFailsDoes ==
  ASSUME RigInv, SignalFails
  PROVE  Good
<1> DEFINE f == Head(c.wire["drive"])
           k == Untaken("drive")
           r == DriveAnswers(drive, f, FALSE)
<1>1. "drive" \in Links /\ c.wire["drive"] # <<>>
  BY DEF SignalFails, Links
<1>2. Resembles(k) /\ Sound(k) /\ k.hb = c.hb /\ f \in DriveFrames
  BY <1>1, UntakenDoes DEF FramesOf
<1>3. Answer("drive", k, r) /\ mishaps' \in 0 .. MaxMishaps
  BY BefallsDoes DEF SignalFails
<1>4. drive \in DriveBoards(Horizon) /\ FALSE \in BOOLEAN
  BY DEF RigInv, RigTyped, AroundTyped
<1> HIDE DEF f, k
<1>5. r \in LinesOf("drive")
  BY <1>2, <1>4, DriveBoardDoes
<1> HIDE DEF r
<1>6. /\ Controlled /\ c'.hb = c.hb
      /\ DOMAIN lines' = Links /\ \A m \in Links : lines'[m] \in Seq(LinesOf(m))
  BY <1>1, <1>2, <1>3, <1>5, AnswerDoes
<1>7. AroundTyped' /\ call' = call /\ throttle' = throttle
  BY <1>3, <1>6 DEF RigInv, RigTyped, AroundTyped, SignalFails
<1>8. call' # Idle => c'.hb = 0
  BY <1>6, <1>7 DEF RigInv, Commanded
<1>9. RigInv'
  BY <1>6, <1>7, <1>8, Assembled
<1> QED
  BY <1>6, <1>9 DEF Good, Controlled

\* A step that touches the controls in nothing but their wires.
LEMMA FrameLostDoes ==
  ASSUME RigInv, NEW l \in Links, FrameLost(l)
  PROVE  Good
<1> DEFINE k == Untaken(l)
<1>1. Resembles(k) /\ Sound(k) /\ k.hb = c.hb /\ c' = k
  BY UntakenDoes DEF FrameLost
<1> HIDE DEF k
<1>2. Calm(k, c', {}) /\ {} \subseteq Harmless(k)
  BY <1>1, CalmSelf DEF Resembles
<1>3. Controlled /\ c'.hb = c.hb
  BY <1>1, <1>2, ControlsResemble, CalmIsControlled
<1>4. mishaps' \in 0 .. MaxMishaps
  BY BefallsDoes DEF FrameLost
<1>5. AroundTyped' /\ call' = call /\ throttle' = throttle
  BY <1>4 DEF RigInv, RigTyped, AroundTyped, FrameLost
<1>6. call' # Idle => c'.hb = 0
  BY <1>3, <1>5 DEF RigInv, Commanded
<1> QED
  BY <1>3, <1>5, <1>6, Assembled DEF Controlled, Good

LEMMA LineLostDoes ==
  ASSUME RigInv, NEW l \in Links, LineLost(l)
  PROVE  Good
<1> DEFINE k == Untaken(l)
           f == Head(c.wire[l])
<1>1. /\ Resembles(k) /\ Sound(k) /\ k.hb = c.hb /\ c' = k
      /\ f \in FramesOf(l)
      /\ l = "accel" => f \in Harmless(c)
  BY UntakenDoes DEF LineLost
<1> HIDE DEF k
<1>2. Calm(k, c', {}) /\ {} \subseteq Harmless(k)
  BY <1>1, CalmSelf DEF Resembles
<1>3. Controlled /\ c'.hb = c.hb
  BY <1>1, <1>2, ControlsResemble, CalmIsControlled
<1>4. mishaps' \in 0 .. MaxMishaps
  BY BefallsDoes DEF LineLost
<1>5. throttle \in ThrottleBoards /\ drive \in DriveBoards(Horizon)
  BY DEF RigInv, RigTyped, AroundTyped
<1>6. CASE l = "accel"
  <2>1. throttle' = ThrottleTakes(throttle, f) /\ drive' = drive /\ f \in AccelFrames /\ f \in Harmless(c)
    BY <1>1, <1>6 DEF LineLost, FramesOf
  <2> HIDE DEF f
  <2>2. throttle' \in ThrottleBoards
    BY <1>5, <2>1, ThrottleBoardDoes
  <2>3. AroundTyped' /\ call' = call
    BY <1>4, <2>1, <2>2 DEF RigInv, RigTyped, AroundTyped, LineLost
  <2>4. RigInv'
    BY <1>3, <2>1, <2>3, AssembledTaking
  <2> QED
    BY <1>3, <2>4 DEF Controlled, Good
<1>7. CASE l # "accel"
  <2>1. drive' = DriveTakes(drive, f) /\ throttle' = throttle /\ f \in DriveFrames /\ TRUE \in BOOLEAN
    BY <1>1, <1>7 DEF LineLost, FramesOf
  <2> HIDE DEF f
  <2>2. drive' \in DriveBoards(Horizon)
    BY <1>5, <2>1, DriveBoardDoes
  <2>3. AroundTyped' /\ call' = call
    BY <1>4, <2>1, <2>2 DEF RigInv, RigTyped, AroundTyped, LineLost
  <2>4. call' # Idle => c'.hb = 0
    BY <1>3, <2>3 DEF RigInv, Commanded
  <2>5. RigInv'
    BY <1>3, <2>1, <2>3, <2>4, Assembled
  <2> QED
    BY <1>3, <2>5 DEF Controlled, Good
<1> QED
  BY <1>6, <1>7

LEMMA PortBreaksDoes ==
  ASSUME RigInv, NEW l \in Links, PortBreaks(l)
  PROVE  Good
<1>1. Typed(c) /\ Sound(c)
  BY ControlsResemble
<1>2. Same(c, c', {"broken"}) /\ c'.broken = c.broken \cup {l}
  BY <1>1 DEF PortBreaks, Same, Typed, Fields
<1>3. Typed(c') /\ c'.wire = c.wire /\ c'.hb = c.hb /\ c'.stopApply = c.stopApply /\ Sound(c')
  BY <1>1, <1>2, ZenonT(40) DEF Same, Typed, Ports, Scalars, Sound, Fields
<1>4. Calm(c, c', {}) /\ {} \subseteq Harmless(c)
  BY <1>1, <1>3, CalmSelf
<1>5. Controlled
  BY <1>3, <1>4, ControlsResemble, CalmIsControlled
<1>6. mishaps' \in 0 .. MaxMishaps
  BY BefallsDoes DEF PortBreaks
<1>7. lines' = [lines EXCEPT ![l] = <<>>] /\ <<>> \in Seq(LinesOf(l))
  BY DEF PortBreaks
<1>8. AroundTyped' /\ call' = call /\ throttle' = throttle
  BY <1>6, <1>7, LinesFit DEF RigInv, RigTyped, AroundTyped, PortBreaks
<1>9. call' # Idle => c'.hb = 0
  BY <1>3, <1>8 DEF RigInv, Commanded
<1> QED
  BY <1>3, <1>5, <1>8, <1>9, Assembled DEF Controlled, Good

\* The controls as they were.
LEMMA UntouchedIsGood ==
  ASSUME RigInv, c' = c, throttle' = throttle, call' = call, AroundTyped'
  PROVE  Good
<1>1. Calm(c, c', {}) /\ {} \subseteq Harmless(c) /\ Sound(c')
  BY ControlsResemble, CalmSelf
<1>2. Controlled
  BY <1>1, ControlsResemble, CalmIsControlled
<1>3. call' # Idle => c'.hb = 0
  BY DEF RigInv, Commanded
<1> QED
  BY <1>2, <1>3, Assembled DEF Controlled, Good

LEMMA SlowsDoes ==
  ASSUME RigInv, NEW who \in Links \cup {"bridge"}, Slows(who)
  PROVE  Good
<1>1. mishaps' \in 0 .. MaxMishaps
  BY BefallsDoes DEF Slows
<1>2. AroundTyped'
  BY <1>1 DEF RigInv, RigTyped, AroundTyped, Slows
<1> QED
  BY <1>2, UntouchedIsGood DEF Slows

LEMMA TickThreadHangsDoes ==
  ASSUME RigInv, TickThreadHangs
  PROVE  Good
<1>1. mishaps' \in 0 .. MaxMishaps
  BY BefallsDoes DEF TickThreadHangs
<1>2. AroundTyped'
  BY <1>1 DEF RigInv, RigTyped, AroundTyped, TickThreadHangs
<1> QED
  BY <1>2, UntouchedIsGood DEF TickThreadHangs

LEMMA BrakeJamsDoes ==
  ASSUME RigInv, BrakeJams
  PROVE  Good
<1>1. mishaps' \in 0 .. MaxMishaps
  BY BefallsDoes DEF BrakeJams
<1>2. drive' \in DriveBoards(Horizon)
  BY DEF RigInv, RigTyped, AroundTyped, BrakeJams, DriveBoards
<1>3. AroundTyped'
  BY <1>1, <1>2 DEF RigInv, RigTyped, AroundTyped, BrakeJams
<1> QED
  BY <1>3, UntouchedIsGood DEF BrakeJams

LEMMA BrakeStallsDoes ==
  ASSUME RigInv, BrakeStalls
  PROVE  Good
<1> DEFINE r == Notice(drive, "brake", "STALL")
<1>1. drive \in DriveBoards(Horizon) /\ "drive" \in Links /\ drive.brake # "stop"
  BY DEF RigInv, RigTyped, AroundTyped, BrakeStalls, Links
<1>2. drive' = Stalled(drive) /\ Answer("drive", c, r)
  BY DEF BrakeStalls
<1>3. drive' \in DriveBoards(Horizon) /\ r \in LinesOf("drive")
  BY <1>1, <1>2, DriveBoardAges
<1> HIDE DEF r
<1>4. /\ Controlled /\ c'.hb = c.hb
      /\ DOMAIN lines' = Links /\ \A m \in Links : lines'[m] \in Seq(LinesOf(m))
  BY <1>1, <1>2, <1>3, ControlsResemble, AnswerDoes
<1>5. AroundTyped' /\ call' = call /\ throttle' = throttle
  BY <1>3, <1>4 DEF RigInv, RigTyped, AroundTyped, BrakeStalls
<1>6. call' # Idle => c'.hb = 0
  BY <1>4, <1>5 DEF RigInv, Commanded
<1> QED
  BY <1>4, <1>5, <1>6, Assembled DEF Controlled, Good

\* A unit of time: the throttle board's age grows with the heartbeat's, and at the end
\* of its silence it rests.
LEMMA ElapseDoes ==
  ASSUME RigInv, Elapse
  PROVE  Good
<1> DEFINE k == ControlsAged(c)
           r == Notice(drive', "trip", "")
<1>1. /\ Typed(c) /\ Sound(c) /\ c.wire["accel"] = <<>> /\ "drive" \in Links
      /\ throttle \in ThrottleBoards /\ drive \in DriveBoards(Horizon)
  BY ControlsResemble DEF Elapse, Links, RigInv, RigTyped, AroundTyped
<1>2. /\ Typed(k) /\ Sound(k) /\ k.wire = c.wire
      /\ k.stopApply # Never <=> c.stopApply # Never
      /\ k.hb = (IF c.hb < Horizon THEN c.hb + 1 ELSE c.hb)
  BY <1>1, ControlsAgedDoes
<1>3. throttle' = ThrottleAged(throttle) /\ drive' = DriveAged(drive, Horizon)
  BY DEF Elapse
<1>4. throttle' \in ThrottleBoards /\ drive' \in DriveBoards(Horizon)
  <2>1. Zero \in AccelFrames
    BY AccelFramesFit
  <2> QED
    BY <1>1, <1>3, <2>1, ThrottleBoardDoes, DriveBoardAges
<1>5. r \in LinesOf("drive")
  BY <1>4, DriveBoardAges
<1> HIDE DEF k, r
<1>6. \/ Answer("drive", k, r)
      \/ c' = k /\ lines' = lines
  BY DEF Elapse, k, r
<1>7. Answered(k, c')
  BY <1>1, <1>2, <1>5, <1>6, HeardDoes, SelfAnswers DEF Answer
<1>8. DOMAIN lines' = Links /\ \A m \in Links : lines'[m] \in Seq(LinesOf(m))
  BY <1>1, <1>5, <1>6, QueuedDoes, LinesKept DEF Answer
<1>9. call' = Idle /\ AroundTyped'
  BY <1>4, <1>8 DEF RigInv, RigTyped, AroundTyped, Elapse
<1>10. Typed(c') /\ Sound(c') /\ c'.hb = k.hb /\ Plain(k, c', {Zero}) /\ Calm(k, c', {Zero})
  BY <1>7 DEF Answered, Calm, Fair, Plain
<1>11. c'.wire["accel"] \in Seq(Harmless(c'))
  <2>1. k.wire["accel"] \in Seq(Harmless(k))
    <3>1. k.wire["accel"] = <<>>
      BY <1>1, <1>2
    <3> QED
      BY <3>1
  <2> QED
    BY <1>2, <1>10, <2>1, ZeroIsHarmless, GrowsHarmless
<1>12. throttle'.duty = "positive" => throttle'.quiet <= Silence /\ c'.hb <= Heartbeat + throttle'.quiet
  <2> HAVE throttle'.duty = "positive"
  <2> DEFINE q == IF throttle.duty = "zero" THEN 0 ELSE Past(throttle.quiet, Silence)
             a == [throttle EXCEPT !.quiet = q]
  <2>1. throttle' = RestOnSilence(a)
    BY <1>3 DEF ThrottleAged
  <2>2. a \in [duty : Duties, quiet : {q}, timedOut : BOOLEAN, timeouts : Nat] /\ a.duty = throttle.duty /\ a.quiet = q
    BY <1>1 DEF ThrottleBoards
  <2> HIDE DEF a
  <2>3. throttle' = a /\ a.duty = "positive" /\ ~(q > Silence)
    BY <2>1, <2>2 DEF RestOnSilence
  <2>4. throttle.duty = "positive" /\ throttle'.quiet = q
    BY <2>2, <2>3
  <2>5. throttle.quiet <= Silence /\ c.hb <= Heartbeat + throttle.quiet
    BY <2>4 DEF RigInv, Commanded
  <2>6. throttle.quiet \in Nat /\ c.hb \in Nat /\ {Silence, Heartbeat, Horizon} \subseteq Nat
    BY <1>1, TimesAssumption, SilenceAssumption DEF ThrottleBoards, Typed, Scalars
  <2>7. q = throttle.quiet + 1
    BY <2>4, <2>5, <2>6 DEF Past
  <2>8. c'.hb <= c.hb + 1 /\ c'.hb \in Nat
    BY <1>2, <1>10, <2>6
  <2> HIDE DEF q
  <2> QED
    BY <2>3, <2>4, <2>5, <2>6, <2>7, <2>8
<1>13. Commanded'
  BY <1>9, <1>11, <1>12 DEF Commanded
<1>14. c.stopApply # Never => NoStart(c.wire["drive"], c')
  <2>1. c.wire["drive"] \in Seq(DriveFrames)
    BY <1>1, TypedWires
  <2> QED
    BY <1>2, <1>10, <2>1, CalmStartsNothing
<1> QED
  BY <1>9, <1>10, <1>13, <1>14 DEF RigInv, RigTyped, Good

LEMMA NextIsGood ==
  ASSUME RigInv, [Next]_vars
  PROVE  Good
<1>1. CASE Next
  <2>1. ASSUME NEW cmd \in Commands, Command(cmd) PROVE Good
    BY <2>1, CommandDoes
  <2>2. CASE CallGoesOn
    BY <2>2, CallGoesOnDoes
  <2>3. CASE EstopHeld \/ BridgeStops
    BY <2>3, StopDoes DEF EstopHeld, BridgeStops
  <2>4. CASE Resume
    BY <2>4, ResumeDoes
  <2>5. CASE HumanClears
    BY <2>5, HumanClearsDoes
  <2>6. CASE TickRuns
    BY <2>6, TickRunsDoes
  <2>7. ASSUME NEW l \in Links, Read(l) \/ ReaderEnds(l) \/ FrameLost(l) \/ LineLost(l) \/ PortBreaks(l)
        PROVE  Good
    BY <2>7, ReadDoes, ReaderEndsDoes, FrameLostDoes, LineLostDoes, PortBreaksDoes
  <2>8. ASSUME NEW who \in Links \cup {"bridge"}, Slows(who) PROVE Good
    BY <2>8, SlowsDoes
  <2>9. CASE ThrottleBoardTakes
    BY <2>9, ThrottleBoardTakesDoes
  <2>10. CASE DriveBoardTakes
    BY <2>10, DriveBoardTakesDoes
  <2>11. CASE SignalFails
    BY <2>11, SignalFailsDoes
  <2>12. CASE BrakeJams
    BY <2>12, BrakeJamsDoes
  <2>13. CASE BrakeStalls
    BY <2>13, BrakeStallsDoes
  <2>14. CASE TickThreadHangs
    BY <2>14, TickThreadHangsDoes
  <2>15. CASE Elapse
    BY <2>15, ElapseDoes
  <2> QED
    BY <1>1, <2>1, <2>2, <2>3, <2>4, <2>5, <2>6, <2>7, <2>8, <2>9, <2>10, <2>11, <2>12, <2>13, <2>14, <2>15
       DEF Next
<1>2. CASE UNCHANGED vars
  <2>1. AroundTyped'
    BY <1>2 DEF vars, RigInv, RigTyped, AroundTyped
  <2> QED
    BY <1>2, <2>1, UntouchedIsGood DEF vars
<1> QED
  BY <1>1, <1>2

LEMMA InitIsSound ==
  ASSUME Init
  PROVE  RigInv
<1> PICK place \in Places, g \in Gears :
           c = NewControls(place, g) /\ drive = NewDriveBoard(place)
  BY DEF Init
<1>1. /\ {Horizon, Silence, MaxMishaps, Reply, Stroke, MaxAge} \subseteq Nat /\ g \in {"D", "N"}
      /\ "zero" \in Duties
  BY TimesAssumption, SilenceAssumption, RigAssumption DEF Duties
<1>2. DOMAIN c = Fields
  BY DEF NewControls, Fields
<1>3. /\ c.up = [l \in Links |-> TRUE] /\ c.broken = {}
      /\ c.wire = [l \in Links |-> <<>>] /\ c.pending = [l \in Links |-> <<>>]
      /\ c.duty = "zero" /\ c.acked = "zero" /\ c.timeouts = Never /\ c.trips = 0
      /\ c.moveDir = "none" /\ c.moveAge = 0 /\ c.stopApply = Never /\ c.steer = "stop" /\ c.gear = g
      /\ c.at = place /\ c.readAge = 0 /\ c.hb = Horizon
      /\ c.stopped = FALSE /\ c.faulted = FALSE /\ c.boardTripped = FALSE
  BY DEF NewControls
<1>4. Ports(c)
  BY <1>3 DEF Ports
<1>5. Scalars(c)
  BY <1>1, <1>3 DEF Scalars
<1>6. Sound(c)
  BY <1>3 DEF Sound
<1>7. throttle \in ThrottleBoards /\ throttle.duty = "zero"
  BY <1>1 DEF Init, NewThrottleBoard, ThrottleBoards
<1>8. drive \in DriveBoards(Horizon)
  BY <1>1 DEF NewDriveBoard, DriveBoards
<1>9. /\ DOMAIN lines = Links /\ \A l \in Links : lines[l] \in Seq(LinesOf(l))
      /\ adapter \in Adapters /\ call = Idle /\ reading \subseteq Links /\ slow \subseteq Links \cup {"bridge"}
      /\ hung \in BOOLEAN /\ mishaps \in 0 .. MaxMishaps
  <2>1. DOMAIN lines = Links /\ \A l \in Links : lines[l] \in Seq(LinesOf(l))
    BY DEF Init
  <2>2. adapter \in Adapters
    BY DEF Init, NewAdapter, Adapters
  <2>3. call = Idle /\ reading \subseteq Links /\ slow \subseteq Links \cup {"bridge"} /\ hung \in BOOLEAN
    BY DEF Init
  <2>4. mishaps \in 0 .. MaxMishaps
    BY <1>1 DEF Init
  <2> QED
    BY <2>1, <2>2, <2>3, <2>4
<1>10. c.wire["accel"] \in Seq(Harmless(c))
  BY <1>3 DEF Links
<1>11. Commanded
  BY <1>7, <1>9, <1>10 DEF Commanded
<1> QED
  BY <1>2, <1>4, <1>5, <1>6, <1>7, <1>8, <1>9, <1>11 DEF RigInv, RigTyped, AroundTyped, Typed

------------------------------------------------------------------------------
(* The steering, over links that lose no frame.                               *)

SteerStop == Frame("steer", "stop")
SteerTurn == Frame("steer", "turn")

\* What a drive module that has not tripped takes for a sign of life.
Feeds(f) == f.cmd \in {"brake", "steer", "alive"}

\* A board steering so (s) may be turning when it has taken all of w.
Turns(w, s) ==
    \/ s = "turn" /\ \A i \in DOMAIN w : w[i] # SteerStop
    \/ \E i \in DOMAIN w : w[i] = SteerTurn /\ \A j \in DOMAIN w : j > i => w[j] # SteerStop

\* What is on the drive module's wire keeps the steering on no longer than the
\* controls mean it to be, nor than the heartbeat's window and the silence (q) of the
\* board; once the window is over nothing turns it, and nothing feeds a board that
\* is not told to stop turning.
Steady(k, s, q) ==
    LET w == k.wire["drive"]
    IN  /\ ~k.up["drive"] => "drive" \in k.broken
        /\ Turns(w, s) => /\ k.steer = "turn" \/ "drive" \in k.broken
                          /\ k.hb <= Heartbeat + q
        /\ ~HostLive(k) => /\ \A i \in DOMAIN w : w[i] # SteerTurn
                           /\ (\E i \in DOMAIN w : Feeds(w[i])) => ~Turns(w, s)

\* As much of Typed as the drive module's link needs.
Rigged(k) ==
    /\ DOMAIN k = Fields /\ DOMAIN k.wire = Links /\ DOMAIN k.up = Links
    /\ k.wire["drive"] \in Seq(DriveFrames) /\ k.hb \in Nat

LEMMA TypedIsRigged ==
  ASSUME NEW k, Typed(k)
  PROVE  Rigged(k)
<1>1. k.hb \in Nat
  BY TimesAssumption DEF Typed, Scalars
<1>2. k.wire["drive"] \in Seq(DriveFrames)
  BY TypedWires
<1> QED
  BY <1>1, <1>2 DEF Typed, Ports, Rigged

\* d comes from k by a step that is steady wherever k was.
Steadies(k, d) ==
    /\ Rigged(d) /\ d.hb = k.hb /\ d.broken = k.broken
    /\ \A s, q : q \in Nat /\ Steady(k, s, q) => Steady(d, s, q)

\* Neither does it turn the steering.
Tame(k, d) == Steadies(k, d) /\ (k.steer = "stop" => d.steer = "stop")

LEMMA SteadiesTwice ==
  ASSUME NEW a, NEW b, NEW d, Steadies(a, b), Steadies(b, d)
  PROVE  Steadies(a, d)
BY DEF Steadies

LEMMA TameTwice ==
  ASSUME NEW a, NEW b, NEW d, Tame(a, b), Tame(b, d)
  PROVE  Tame(a, d)
BY SteadiesTwice DEF Tame

LEMMA TameSelf ==
  ASSUME NEW k, Rigged(k)
  PROVE  Tame(k, k)
BY DEF Tame, Steadies

\* Someone is there to mind the steering, or there is nothing to mind.
Minded(k) == HostLive(k) \/ k.steer = "stop"

LEMMA TameIsMinded ==
  ASSUME NEW k, Minded(k), NEW d, Tame(k, d)
  PROVE  Minded(d) /\ Rigged(d)
BY DEF Minded, Tame, Steadies, HostLive

\* A step that touches nothing of the drive module's link.
Spared == {"up", "broken", "wire", "hb", "steer"}

LEMMA TouchIsTame ==
  ASSUME NEW k, Rigged(k), NEW X, X \cap Spared = {}, NEW d, Same(k, d, X)
  PROVE  Tame(k, d) /\ Rigged(d) /\ d.wire = k.wire /\ d.up = k.up /\ d.broken = k.broken
         /\ d.hb = k.hb /\ d.steer = k.steer
<1>1. d.wire = k.wire /\ d.up = k.up /\ d.broken = k.broken /\ d.hb = k.hb /\ d.steer = k.steer
  BY DEF Same, Spared, Fields
<1>2. Rigged(d)
  BY <1>1 DEF Rigged, Same
<1>3. \A s, q : Steady(k, s, q) => Steady(d, s, q)
  BY <1>1 DEF Steady, HostLive
<1> QED
  BY <1>1, <1>2, <1>3 DEF Tame, Steadies

\* The wire as it was: the link may be given up where its port is broken, and the steering
\* stopped where there is nothing to write to.
LEMMA StillIsSteady ==
  ASSUME NEW k, Rigged(k), NEW d, Rigged(d), d.hb = k.hb, d.broken = k.broken,
         d.wire["drive"] = k.wire["drive"],
         d.up["drive"] = k.up["drive"] \/ "drive" \in k.broken,
         d.steer = k.steer \/ d.steer = "turn" \/ "drive" \in k.broken \/ ~k.up["drive"]
  PROVE  Steadies(k, d)
BY DEF Steadies, Steady, HostLive

LEMMA Appended ==
  ASSUME NEW S, NEW v \in Seq(S), NEW f
  PROVE  LET w == Append(v, f)
         IN  /\ Len(v) \in Nat /\ DOMAIN v = 1 .. Len(v)
             /\ DOMAIN w = 1 .. Len(v) + 1 /\ w[Len(v) + 1] = f
             /\ \A i \in 1 .. Len(v) : w[i] = v[i]
OBVIOUS

\* A stop is what the wire ends in.
LEMMA StopEnds ==
  ASSUME NEW u \in Seq(DriveFrames), NEW s
  PROVE  ~Turns(Append(u, SteerStop), s)
<1> DEFINE w == Append(u, SteerStop)
           n == Len(u) + 1
<1>1. n \in DOMAIN w /\ w[n] = SteerStop /\ \A i \in DOMAIN w : i \in Int /\ i <= n
  BY Appended
<1>2. SteerStop # SteerTurn
  BY DEF SteerStop, SteerTurn, Frame
<1> HIDE DEF w, n
<1>3. ~Turns(w, s)
  <2>1. ~(s = "turn" /\ \A i \in DOMAIN w : w[i] # SteerStop)
    BY <1>1
  <2>2. ASSUME NEW i \in DOMAIN w, w[i] = SteerTurn, \A j \in DOMAIN w : j > i => w[j] # SteerStop
        PROVE  FALSE
    <3>1. n # i /\ i <= n /\ n \in Int /\ i \in Int
      BY <1>1, <1>2, <2>2
    <3>2. n > i
      BY <3>1
    <3> QED
      BY <1>1, <2>2, <3>2
  <2> QED
    BY <2>1, <2>2 DEF Turns
<1> QED
  BY <1>3 DEF w

\* A frame that does not steer.
LEMMA OthersTurnNothing ==
  ASSUME NEW v \in Seq(DriveFrames), NEW f, f # SteerStop, f # SteerTurn, NEW s, Turns(Append(v, f), s)
  PROVE  Turns(v, s)
<1> DEFINE w == Append(v, f)
           n == Len(v) + 1
<1>1. /\ DOMAIN v = 1 .. Len(v) /\ Len(v) \in Nat /\ DOMAIN w = 1 .. n /\ w[n] = f
      /\ \A i \in DOMAIN v : i \in DOMAIN w /\ w[i] = v[i]
      /\ \A i \in DOMAIN w : i \in DOMAIN v \/ i = n
  BY Appended
<1> HIDE DEF w
<1>2. CASE s = "turn" /\ \A i \in DOMAIN w : w[i] # SteerStop
  BY <1>1, <1>2 DEF Turns
<1>3. CASE \E i \in DOMAIN w : w[i] = SteerTurn /\ \A j \in DOMAIN w : j > i => w[j] # SteerStop
  <2>1. PICK i \in DOMAIN w : w[i] = SteerTurn /\ \A j \in DOMAIN w : j > i => w[j] # SteerStop
    BY <1>3
  <2>2. i \in DOMAIN v /\ v[i] = SteerTurn /\ \A j \in DOMAIN v : j > i => v[j] # SteerStop
    BY <1>1, <2>1
  <2> QED
    BY <2>2 DEF Turns
<1> QED
  BY <1>2, <1>3 DEF Turns, w

\* f went out, or there was nothing to write to.
Sent(k, d, f) ==
    /\ Rigged(d) /\ d.hb = k.hb /\ d.broken = k.broken /\ d.steer = k.steer
    /\ IF Goes(k, "drive")
       THEN d.wire["drive"] = Append(k.wire["drive"], f) /\ d.up["drive"] = k.up["drive"]
       ELSE d.wire["drive"] = k.wire["drive"] /\ ~d.up["drive"]

\* A frame that does not steer, while someone minds the steering or where the frame does
\* not feed the board.
LEMMA FrameIsSteady ==
  ASSUME NEW k, Rigged(k), NEW f \in DriveFrames, f # SteerStop, f # SteerTurn, Minded(k) \/ ~Feeds(f),
         NEW d, Sent(k, d, f)
  PROVE  Tame(k, d)
<1> SUFFICES ASSUME NEW s, NEW q \in Nat, Steady(k, s, q) PROVE Steady(d, s, q)
  BY DEF Sent, Tame, Steadies
<1> DEFINE v == k.wire["drive"]
           w == d.wire["drive"]
<1>1. v \in Seq(DriveFrames)
  BY DEF Rigged
<1>2. CASE ~Goes(k, "drive")
  <2>1. "drive" \in k.broken
    BY <1>2 DEF Goes, Steady
  <2> QED
    BY <1>2, <2>1 DEF Sent, Steady, HostLive
<1>3. CASE Goes(k, "drive")
  <2>1. w = Append(v, f) /\ d.up["drive"] /\ "drive" \notin k.broken
    BY <1>3 DEF Sent, Goes
  <2> HIDE DEF w
  <2>2. Turns(w, s) => Turns(v, s)
    BY <1>1, <2>1, OthersTurnNothing
  <2>3. \A i \in DOMAIN w : w[i] = f \/ \E j \in DOMAIN v : w[i] = v[j]
    BY <1>1, <2>1, Appended
  <2>4. Turns(w, s) => k.steer = "turn" /\ k.hb <= Heartbeat + q
    BY <2>1, <2>2 DEF Steady
  <2>5. ASSUME ~HostLive(k)
        PROVE  /\ \A i \in DOMAIN w : w[i] # SteerTurn
               /\ (\E i \in DOMAIN w : Feeds(w[i])) => ~Turns(w, s)
    <3>1. \A j \in DOMAIN v : v[j] # SteerTurn
      BY <2>5 DEF Steady
    <3>2. \A i \in DOMAIN w : w[i] # SteerTurn
      BY <2>3, <3>1
    <3>3. ASSUME NEW i \in DOMAIN w, Feeds(w[i]) PROVE ~Turns(w, s)
      <4>1. CASE w[i] = f
        <5>1. k.steer = "stop"
          BY <2>5, <3>3, <4>1 DEF Minded
        <5> QED
          BY <2>4, <5>1
      <4>2. CASE \E j \in DOMAIN v : w[i] = v[j]
        <5>1. ~Turns(v, s)
          BY <2>5, <3>3, <4>2 DEF Steady
        <5> QED
          BY <2>2, <5>1
      <4> QED
        BY <2>3, <4>1, <4>2
    <3> QED
      BY <3>2, <3>3
  <2>6. d.steer = k.steer /\ d.hb = k.hb /\ d.broken = k.broken /\ (HostLive(d) <=> HostLive(k))
    BY DEF Sent, HostLive
  <2> QED
    BY <2>1, <2>4, <2>5, <2>6 DEF Steady, w
<1> QED
  BY <1>2, <1>3

\* The steering is told to stop, or there was nothing to tell.
LEMMA StopIsSteady ==
  ASSUME NEW k, Rigged(k), NEW d, Rigged(d), d.hb = k.hb, d.broken = k.broken, d.steer = "stop",
         NEW u \in Seq(DriveFrames),
         \A i \in DOMAIN u : u[i] = SteerTurn => \E j \in DOMAIN k.wire["drive"] : k.wire["drive"][j] = SteerTurn,
         IF Goes(k, "drive") THEN d.wire["drive"] = Append(u, SteerStop) /\ d.up["drive"] = k.up["drive"]
         ELSE d.wire["drive"] = k.wire["drive"]
  PROVE  Tame(k, d)
<1> SUFFICES ASSUME NEW s, NEW q \in Nat, Steady(k, s, q) PROVE Steady(d, s, q)
  BY DEF Tame, Steadies
<1> DEFINE v == k.wire["drive"]
           w == d.wire["drive"]
<1>1. HostLive(d) <=> HostLive(k)
  BY DEF HostLive
<1>2. CASE ~Goes(k, "drive")
  <2>1. "drive" \in k.broken /\ w = v
    BY <1>2 DEF Goes, Steady
  <2> QED
    BY <1>1, <1>2, <2>1 DEF Steady
<1>3. CASE Goes(k, "drive")
  <2>1. w = Append(u, SteerStop) /\ d.up["drive"]
    BY <1>3 DEF Goes
  <2> HIDE DEF w
  <2>2. ~Turns(w, s)
    BY <2>1, StopEnds
  <2>3. SteerStop # SteerTurn
    BY DEF SteerStop, SteerTurn, Frame
  <2>4. \A i \in DOMAIN w : w[i] = SteerStop \/ (i \in DOMAIN u /\ w[i] = u[i])
    BY <2>1, Appended
  <2>5. ~HostLive(k) => \A i \in DOMAIN w : w[i] # SteerTurn
    BY <2>3, <2>4 DEF Steady
  <2> QED
    BY <1>1, <2>1, <2>2, <2>5 DEF Steady, w
<1> QED
  BY <1>2, <1>3

\* The steering is turned while the host is heard.
LEMMA TurnIsSteady ==
  ASSUME NEW k, Rigged(k), HostLive(k), k.steer = "turn", NEW d, Sent(k, d, SteerTurn)
  PROVE  Steadies(k, d)
<1> SUFFICES ASSUME NEW s, NEW q \in Nat, Steady(k, s, q) PROVE Steady(d, s, q)
  BY DEF Sent, Steadies
<1>1. HostLive(d) /\ d.hb <= Heartbeat + q /\ d.steer = "turn" /\ d.broken = k.broken
  BY TimesAssumption DEF Sent, HostLive, Rigged
<1>2. ~d.up["drive"] => "drive" \in d.broken
  BY <1>1 DEF Sent, Steady, Goes
<1> QED
  BY <1>1, <1>2 DEF Steady
------------------------------------------------------------------------------
(* The controls' own methods, and the steering.                               *)

LEMMA WriteInStopSends ==
  ASSUME NEW k, Rigged(k), NEW l \in Links, NEW cmd, NEW arg, NEW marks,
         l = "drive" => Frame(cmd, arg) \in DriveFrames
  PROVE  LET d == WriteInStop(k, l, cmd, arg, marks)
         IN  /\ l = "drive" => Sent(k, d, Frame(cmd, arg))
             /\ l = "accel" => /\ Same(k, d, {"wire", "pending", "up", "faulted"})
                               /\ d.wire["drive"] = k.wire["drive"] /\ d.up["drive"] = k.up["drive"]
                               /\ DOMAIN d.wire = Links /\ DOMAIN d.up = Links
<1> DEFINE f == Frame(cmd, arg)
           t == [cmd |-> cmd, arg |-> arg, age |-> 0, marks |-> marks]
           d == WriteInStop(k, l, cmd, arg, marks)
<1>1. DOMAIN k = Fields /\ DOMAIN k.wire = Links /\ DOMAIN k.up = Links /\ k.wire["drive"] \in Seq(DriveFrames)
  BY DEF Rigged
<1>2. f = [cmd |-> cmd, arg |-> arg]
  BY DEF Frame
<1> SUFFICES /\ l = "drive" => Sent(k, d, f)
             /\ l = "accel" => /\ Same(k, d, {"wire", "pending", "up", "faulted"})
                               /\ d.wire["drive"] = k.wire["drive"] /\ d.up["drive"] = k.up["drive"]
                               /\ DOMAIN d.wire = Links /\ DOMAIN d.up = Links
  OBVIOUS
<1> HIDE DEF f, t, d
<1>3. CASE Goes(k, l)
  <2>1. d = [k EXCEPT !.wire[l] = Append(@, f), !.pending[l] = Append(@, t)]
    BY <1>2, <1>3 DEF WriteInStop, d, t
  <2>2. Same(k, d, {"wire", "pending"}) /\ d.wire = [k.wire EXCEPT ![l] = Append(@, f)]
    BY <1>1, <2>1 DEF Same, Fields
  <2>3. d.up = k.up /\ d.hb = k.hb /\ d.broken = k.broken /\ d.steer = k.steer /\ DOMAIN d = Fields
    BY <2>2 DEF Same, Fields
  <2>4. DOMAIN d.wire = Links /\ \A m \in Links : d.wire[m] = IF m = l THEN Append(k.wire[m], f) ELSE k.wire[m]
    BY <1>1, <2>2
  <2>5. CASE l = "drive"
    <3>1. d.wire["drive"] = Append(k.wire["drive"], f) /\ f \in DriveFrames
      BY <2>4, <2>5 DEF f, Links
    <3>2. d.wire["drive"] \in Seq(DriveFrames)
      BY <1>1, <3>1
    <3> QED
      BY <1>1, <1>3, <2>3, <2>4, <2>5, <3>1, <3>2 DEF Sent, Rigged, Links
  <2>6. CASE l = "accel"
    <3>1. d.wire["drive"] = k.wire["drive"]
      BY <2>4, <2>6 DEF Links
    <3> QED
      BY <1>1, <2>2, <2>3, <2>4, <2>6, <3>1 DEF Same
  <2> QED
    BY <2>5, <2>6 DEF Links
<1>4. CASE ~Goes(k, l) /\ k.up[l]
  <2>1. d = [k EXCEPT !.up[l] = FALSE, !.faulted = TRUE]
    BY <1>4 DEF WriteInStop, d
  <2>2. Same(k, d, {"up", "faulted"}) /\ d.up = [k.up EXCEPT ![l] = FALSE]
    BY <1>1, <2>1 DEF Same, Fields
  <2>3. d.wire = k.wire /\ d.hb = k.hb /\ d.broken = k.broken /\ d.steer = k.steer /\ DOMAIN d = Fields
    BY <2>2 DEF Same, Fields
  <2>4. DOMAIN d.up = Links /\ \A m \in Links : d.up[m] = IF m = l THEN FALSE ELSE k.up[m]
    BY <1>1, <2>2
  <2>5. CASE l = "drive"
    BY <1>1, <1>4, <2>3, <2>4, <2>5 DEF Sent, Rigged, Links
  <2>6. CASE l = "accel"
    BY <1>1, <2>2, <2>3, <2>4, <2>6 DEF Same, Links
  <2> QED
    BY <2>5, <2>6 DEF Links
<1>5. CASE ~Goes(k, l) /\ ~k.up[l]
  <2>1. d = k
    BY <1>5 DEF WriteInStop, d
  <2> QED
    BY <1>1, <1>5, <2>1 DEF Sent, Same, Links
<1> QED
  BY <1>3, <1>4, <1>5

\* What the throttle board's link is used for leaves the drive module's alone.
Aside(k, d) ==
    /\ Rigged(d) /\ d.hb = k.hb /\ d.broken = k.broken /\ d.steer = k.steer
    /\ d.wire["drive"] = k.wire["drive"] /\ d.up["drive"] = k.up["drive"]

LEMMA AsideIsTame ==
  ASSUME NEW k, Rigged(k), NEW d, Aside(k, d)
  PROVE  Tame(k, d)
BY StillIsSteady DEF Aside, Tame

LEMMA UnmarkedIsTame ==
  ASSUME NEW k, Rigged(k), NEW mark
  PROVE  Tame(k, Unmarked(k, mark)) /\ Aside(k, Unmarked(k, mark))
<1> DEFINE d == Unmarked(k, mark)
<1>1. Same(k, d, {"pending"})
  BY DEF Unmarked, Same, Rigged
<1>2. {"pending"} \cap Spared = {}
  BY DEF Spared
<1> HIDE DEF d
<1>3. Tame(k, d) /\ Aside(k, d)
  BY <1>1, <1>2, TouchIsTame DEF Aside
<1> QED
  BY <1>3 DEF d

LEMMA DutyInStopAside ==
  ASSUME NEW k, Rigged(k), NEW duty, NEW marks
  PROVE  Aside(k, DutyInStop(k, duty, marks))
<1> DEFINE u == Unmarked(k, "latest")
           w == WriteInStop(u, "accel", "duty", duty, marks \cup {"latest"})
           d == [w EXCEPT !.latestAcked = FALSE]
           e == WriteInStop(k, "accel", "duty", duty, marks)
<1>0. "accel" \in Links /\ "accel" # "drive"
  BY DEF Links
<1>1. Aside(k, u) /\ Rigged(u)
  BY UnmarkedIsTame DEF Aside
<1>2. ASSUME NEW a, Rigged(a), NEW m
      PROVE  Aside(a, WriteInStop(a, "accel", "duty", duty, m))
  <2> DEFINE b == WriteInStop(a, "accel", "duty", duty, m)
  <2>1. /\ Same(a, b, {"wire", "pending", "up", "faulted"})
        /\ b.wire["drive"] = a.wire["drive"] /\ b.up["drive"] = a.up["drive"]
        /\ DOMAIN b.wire = Links /\ DOMAIN b.up = Links
    BY <1>0, <1>2, WriteInStopSends
  <2> HIDE DEF b
  <2>2. b.hb = a.hb /\ b.broken = a.broken /\ b.steer = a.steer
    BY <2>1 DEF Same, Fields
  <2>3. Aside(a, b)
    BY <1>2, <2>1, <2>2 DEF Aside, Rigged, Same
  <2> QED
    BY <2>3 DEF b
<1>3. Aside(u, w) /\ Aside(k, e)
  BY <1>1, <1>2
<1> HIDE DEF u, w, e
<1>4. Same(w, d, {"latestAcked"}) /\ {"latestAcked"} \cap Spared = {} /\ Rigged(w)
  BY <1>3 DEF Same, Spared, Aside, Rigged
<1> HIDE DEF d
<1>5. Aside(w, d)
  BY <1>4, TouchIsTame DEF Aside
<1>6. Aside(k, d)
  BY <1>1, <1>3, <1>5 DEF Aside
<1> QED
  BY <1>3, <1>6 DEF DutyInStop, u, w, d, e

\* A stop tells the steering to, whatever else it does first.
LEMMA SafeStopIsTame ==
  ASSUME NEW k, Rigged(k), NEW brake
  PROVE  Tame(k, SafeStop(k, brake)) /\ SafeStop(k, brake).steer = "stop"
<1> DEFINE u == Unmarked(k, "stop")
           m == Unmarked(u, "release")
           reset == [m EXCEPT !.stopped = TRUE, !.steer = "stop", !.duty = "zero"]
           rest == DutyInStop(reset, "zero", {"stop"})
           onset == [rest EXCEPT !.applied = TRUE, !.moving = TRUE,
                                 !.stopApply = 0, !.moveDir = "apply", !.moveAge = 0]
           still == [rest EXCEPT !.moving = FALSE]
           braked == IF AppliesBrake(rest, brake)
                     THEN WriteInStop(onset, "drive", "brake", "apply", {"stop"})
                     ELSE IF LetsStrokeRun(rest, brake) THEN rest
                     ELSE WriteInStop(still, "drive", "brake", "stop", {"stop"})
           ended == WriteInStop(braked, "drive", "steer", "stop", {"stop"})
           d == [ended EXCEPT !.whole = AllGo(k)]
<1>0. "drive" \in Links /\ "drive" # "accel"
  BY DEF Links
<1>1. SafeStop(k, brake) = d
  BY DEF SafeStop
<1>2. Aside(k, m) /\ Rigged(m)
  BY UnmarkedIsTame DEF Aside
<1> HIDE DEF u, m
<1>3. Same(m, reset, {"stopped", "steer", "duty"}) /\ reset.steer = "stop"
  BY <1>2 DEF Same, Rigged, Fields
<1> HIDE DEF reset
<1>4. /\ Rigged(reset) /\ reset.hb = k.hb /\ reset.broken = k.broken
      /\ reset.wire["drive"] = k.wire["drive"] /\ reset.up["drive"] = k.up["drive"]
  <2>1. /\ reset.hb = m.hb /\ reset.broken = m.broken /\ reset.wire = m.wire /\ reset.up = m.up
        /\ DOMAIN reset = Fields
    BY <1>3 DEF Same, Fields
  <2> QED
    BY <1>2, <2>1 DEF Aside, Rigged
<1>5. Aside(reset, rest)
  BY <1>4, DutyInStopAside
<1> HIDE DEF rest
<1>6. /\ Rigged(rest) /\ rest.hb = k.hb /\ rest.broken = k.broken /\ rest.steer = "stop"
      /\ rest.wire["drive"] = k.wire["drive"] /\ rest.up["drive"] = k.up["drive"]
  BY <1>3, <1>4, <1>5 DEF Aside
<1>7. ASSUME NEW a, NEW X, Same(rest, a, X), X \cap Spared = {}, NEW arg \in {"apply", "stop"}
      PROVE  LET b == WriteInStop(a, "drive", "brake", arg, {"stop"})
             IN  /\ Rigged(b) /\ b.hb = k.hb /\ b.broken = k.broken /\ b.steer = "stop"
                 /\ IF Goes(k, "drive")
                    THEN b.wire["drive"] = Append(k.wire["drive"], Frame("brake", arg)) /\ b.up["drive"] = k.up["drive"]
                    ELSE b.wire["drive"] = k.wire["drive"]
                 /\ Goes(b, "drive") <=> Goes(k, "drive")
  <2> DEFINE b == WriteInStop(a, "drive", "brake", arg, {"stop"})
  <2>1. Rigged(a) /\ a.wire = rest.wire /\ a.up = rest.up /\ a.broken = rest.broken /\ a.hb = rest.hb /\ a.steer = rest.steer
    BY <1>6, <1>7, TouchIsTame
  <2>2. Frame("brake", arg) \in DriveFrames
    BY <1>7, FramesFit DEF FramesOf
  <2>3. Sent(a, b, Frame("brake", arg))
    BY <1>0, <2>1, <2>2, WriteInStopSends
  <2> HIDE DEF b
  <2>4. Goes(a, "drive") <=> Goes(k, "drive")
    BY <1>6, <2>1 DEF Goes
  <2>5. /\ Rigged(b) /\ b.hb = k.hb /\ b.broken = k.broken /\ b.steer = "stop"
        /\ IF Goes(k, "drive")
           THEN b.wire["drive"] = Append(k.wire["drive"], Frame("brake", arg)) /\ b.up["drive"] = k.up["drive"]
           ELSE b.wire["drive"] = k.wire["drive"]
        /\ Goes(b, "drive") <=> Goes(k, "drive")
    BY <1>6, <2>1, <2>3, <2>4 DEF Sent, Goes
  <2> QED
    BY <2>5 DEF b
<1>8. /\ Same(rest, onset, {"applied", "moving", "stopApply", "moveDir", "moveAge"})
      /\ Same(rest, still, {"moving"})
      /\ {"applied", "moving", "stopApply", "moveDir", "moveAge"} \cap Spared = {} /\ {"moving"} \cap Spared = {}
  BY <1>6 DEF Same, Rigged, Spared
<1> HIDE DEF onset, still
<1> DEFINE v == k.wire["drive"]
<1>9. /\ Rigged(braked) /\ braked.hb = k.hb /\ braked.broken = k.broken /\ braked.steer = "stop"
      /\ Goes(braked, "drive") <=> Goes(k, "drive")
      /\ Goes(k, "drive") => braked.up["drive"] = k.up["drive"]
      /\ \/ braked.wire["drive"] = v
         \/ Goes(k, "drive") /\ \E arg \in {"apply", "stop"} : braked.wire["drive"] = Append(v, Frame("brake", arg))
  <2>1. CASE AppliesBrake(rest, brake)
    <3>1. braked = WriteInStop(onset, "drive", "brake", "apply", {"stop"})
      BY <2>1
    <3> HIDE DEF braked
    <3> QED
      BY <1>7, <1>8, <3>1
  <2>2. CASE ~AppliesBrake(rest, brake) /\ LetsStrokeRun(rest, brake)
    <3>1. braked = rest
      BY <2>2
    <3> HIDE DEF braked
    <3> QED
      BY <1>6, <3>1 DEF Goes
  <2>3. CASE ~AppliesBrake(rest, brake) /\ ~LetsStrokeRun(rest, brake)
    <3>1. braked = WriteInStop(still, "drive", "brake", "stop", {"stop"})
      BY <2>3
    <3> HIDE DEF braked
    <3> QED
      BY <1>7, <1>8, <3>1
  <2> QED
    BY <2>1, <2>2, <2>3
<1> HIDE DEF braked
<1>10. Sent(braked, ended, SteerStop)
  <2>1. SteerStop \in DriveFrames
    BY FramesFit DEF FramesOf, SteerStop
  <2> QED
    BY <1>0, <1>9, <2>1, WriteInStopSends DEF SteerStop
<1> HIDE DEF ended
<1>11. /\ Rigged(d) /\ d.wire = ended.wire /\ d.up = ended.up /\ d.broken = ended.broken
       /\ d.hb = ended.hb /\ d.steer = ended.steer
  <2>1. Same(ended, d, {"whole"}) /\ {"whole"} \cap Spared = {} /\ Rigged(ended)
    BY <1>10 DEF Same, Sent, Rigged, Spared
  <2> HIDE DEF d
  <2> QED
    BY <2>1, TouchIsTame
<1> HIDE DEF d
<1> DEFINE t == braked.wire["drive"]
<1>12. /\ t \in Seq(DriveFrames)
       /\ \A i \in DOMAIN t : t[i] = SteerTurn => \E j \in DOMAIN v : v[j] = SteerTurn
  <2>1. t \in Seq(DriveFrames) /\ v \in Seq(DriveFrames)
    BY <1>9 DEF Rigged
  <2>2. ASSUME NEW arg, t = Append(v, Frame("brake", arg)), NEW i \in DOMAIN t, t[i] = SteerTurn
        PROVE  \E j \in DOMAIN v : v[j] = SteerTurn
    <3>1. Frame("brake", arg) # SteerTurn
      BY DEF Frame, SteerTurn
    <3>2. i \in DOMAIN v /\ t[i] = v[i]
      BY <2>1, <2>2, <3>1, Appended
    <3> QED
      BY <2>2, <3>2
  <2> QED
    BY <1>9, <2>1, <2>2
<1>13. IF Goes(k, "drive") THEN d.wire["drive"] = Append(t, SteerStop) /\ d.up["drive"] = k.up["drive"]
       ELSE d.wire["drive"] = k.wire["drive"]
  BY <1>9, <1>10, <1>11 DEF Sent
<1>14. Tame(k, d) /\ d.steer = "stop"
  <2>1. d.hb = k.hb /\ d.broken = k.broken /\ d.steer = "stop"
    BY <1>9, <1>10, <1>11 DEF Sent
  <2> HIDE DEF t
  <2> QED
    BY <1>11, <1>12, <1>13, <2>1, StopIsSteady
<1> QED
  BY <1>1, <1>14

LEMMA FaultIsTame ==
  ASSUME NEW k, Rigged(k), NEW brake
  PROVE  Tame(k, Fault(k, brake))
<1> DEFINE u == [k EXCEPT !.faulted = TRUE, !.boardTripped = @ \/ ~brake]
<1>1. Same(k, u, {"faulted", "boardTripped"}) /\ {"faulted", "boardTripped"} \cap Spared = {}
  BY DEF Same, Rigged, Spared
<1> HIDE DEF u
<1>2. Tame(k, u) /\ Rigged(u)
  BY <1>1, TouchIsTame
<1>3. Tame(u, SafeStop(u, brake))
  BY <1>2, SafeStopIsTame
<1>4. Tame(k, SafeStop(u, brake))
  BY <1>2, <1>3, TameTwice
<1> QED
  BY <1>4 DEF Fault, u

\* A frame to the throttle board may go at any time.
LEMMA WriteIsTame ==
  ASSUME NEW k, Rigged(k), NEW l \in Links, NEW cmd, NEW arg, NEW marks,
         l = "drive" => /\ Frame(cmd, arg) \in DriveFrames /\ cmd # "steer"
                        /\ Minded(k) \/ ~Feeds(Frame(cmd, arg))
  PROVE  Tame(k, Write(k, l, cmd, arg, marks))
<1> DEFINE f == Frame(cmd, arg)
           w == WriteInStop(k, l, cmd, arg, marks)
<1>1. Tame(k, w)
  <2>1. CASE l = "drive"
    <3>1. Sent(k, w, f)
      BY <2>1, WriteInStopSends
    <3>2. f # SteerStop /\ f # SteerTurn
      BY <2>1 DEF Frame, SteerStop, SteerTurn
    <3> HIDE DEF f, w
    <3>3. f \in DriveFrames /\ (Minded(k) \/ ~Feeds(f))
      BY <2>1 DEF f
    <3> QED
      BY <3>1, <3>2, <3>3, FrameIsSteady
  <2>2. CASE l = "accel"
    <3>1. /\ Same(k, w, {"wire", "pending", "up", "faulted"})
          /\ w.wire["drive"] = k.wire["drive"] /\ w.up["drive"] = k.up["drive"]
          /\ DOMAIN w.wire = Links /\ DOMAIN w.up = Links
      BY <2>2, WriteInStopSends
    <3> HIDE DEF w
    <3>2. w.hb = k.hb /\ w.broken = k.broken /\ w.steer = k.steer
      BY <3>1 DEF Same, Fields
    <3>3. Aside(k, w)
      BY <3>1, <3>2 DEF Aside, Rigged, Same
    <3> QED
      BY <3>3, AsideIsTame
  <2> QED
    BY <2>1, <2>2 DEF Links
<1> HIDE DEF w
<1>2. Tame(w, SafeStop(w, TRUE))
  BY <1>1, SafeStopIsTame DEF Tame, Steadies
<1>3. Tame(k, SafeStop(w, TRUE))
  BY <1>1, <1>2, TameTwice
<1> QED
  BY <1>1, <1>3 DEF Write, w

LEMMA WriteDutyIsTame ==
  ASSUME NEW k, Rigged(k), NEW duty
  PROVE  Tame(k, WriteDuty(k, duty))
<1> DEFINE w == DutyInStop(k, duty, {})
<1>1. Tame(k, w)
  BY DutyInStopAside, AsideIsTame
<1> HIDE DEF w
<1>2. Tame(w, SafeStop(w, TRUE))
  BY <1>1, SafeStopIsTame DEF Tame, Steadies
<1>3. Tame(k, SafeStop(w, TRUE))
  BY <1>1, <1>2, TameTwice
<1> QED
  BY <1>1, <1>3 DEF WriteDuty, w

LEMMA SetThrottleIsTame ==
  ASSUME NEW k, Rigged(k), NEW duty
  PROVE  Tame(k, SetThrottle(k, duty))
<1> DEFINE u == [k EXCEPT !.duty = duty]
<1>1. Same(k, u, {"duty"}) /\ {"duty"} \cap Spared = {}
  BY DEF Same, Rigged, Spared
<1> HIDE DEF u
<1>2. Tame(k, u) /\ Rigged(u)
  BY <1>1, TouchIsTame
<1>3. Tame(k, WriteDuty(u, duty))
  BY <1>2, WriteDutyIsTame, TameTwice
<1> QED
  BY <1>3 DEF SetThrottle, u

\* A move of the brake.
LEMMA BrakeWriteIsTame ==
  ASSUME NEW k, Rigged(k), Minded(k), NEW arg \in {"stop", "apply", "release"}, NEW marks
  PROVE  Tame(k, Write(k, "drive", "brake", arg, marks))
<1>1. "drive" \in Links /\ Frame("brake", arg) \in DriveFrames /\ "brake" # "steer"
  BY FramesFit DEF Links, FramesOf
<1> QED
  BY <1>1, WriteIsTame

LEMMA ApplyBrakeIsTame ==
  ASSUME NEW k, Rigged(k), Minded(k)
  PROVE  Tame(k, ApplyBrake(k))
<1> DEFINE u == Unmarked(k, "release")
           v == [u EXCEPT !.applied = TRUE, !.duty = "zero"]
           w == WriteDuty(v, "zero")
           x == [w EXCEPT !.moving = TRUE, !.moveDir = "apply", !.moveAge = 0]
           d == Write(x, "drive", "brake", "apply", {})
<1>1. d = ApplyBrake(k)
  BY DEF ApplyBrake
<1>2. Tame(k, u) /\ Rigged(u)
  BY UnmarkedIsTame DEF Aside
<1> HIDE DEF u
<1>3. Same(u, v, {"applied", "duty"}) /\ {"applied", "duty"} \cap Spared = {}
  BY <1>2 DEF Same, Rigged, Spared
<1> HIDE DEF v
<1>4. Tame(k, v) /\ Rigged(v)
  BY <1>2, <1>3, TouchIsTame, TameTwice
<1>5. Tame(k, w) /\ Rigged(w)
  BY <1>4, WriteDutyIsTame, TameTwice DEF Tame, Steadies
<1> HIDE DEF w
<1>6. /\ Same(w, x, {"moving", "moveDir", "moveAge"})
      /\ {"moving", "moveDir", "moveAge"} \cap Spared = {}
  BY <1>5 DEF Same, Rigged, Spared
<1> HIDE DEF x
<1>7. Tame(k, x) /\ Rigged(x)
  BY <1>5, <1>6, TouchIsTame, TameTwice
<1>8. Minded(x)
  BY <1>7, TameIsMinded
<1>9. Tame(k, d)
  BY <1>7, <1>8, BrakeWriteIsTame, TameTwice
<1> QED
  BY <1>1, <1>9

LEMMA ReleaseBrakeIsTame ==
  ASSUME NEW k, Rigged(k), Minded(k)
  PROVE  Tame(k, ReleaseBrake(k))
<1> DEFINE u == Unmarked(k, "release")
           x == [u EXCEPT !.moving = TRUE, !.moveDir = "release", !.moveAge = 0]
           d == Write(x, "drive", "brake", "release", {"release"})
<1>1. d = ReleaseBrake(k)
  BY DEF ReleaseBrake
<1>2. Tame(k, u) /\ Rigged(u)
  BY UnmarkedIsTame DEF Aside
<1> HIDE DEF u
<1>3. /\ Same(u, x, {"moving", "moveDir", "moveAge"})
      /\ {"moving", "moveDir", "moveAge"} \cap Spared = {}
  BY <1>2 DEF Same, Rigged, Spared
<1> HIDE DEF x
<1>4. Tame(k, x) /\ Rigged(x)
  BY <1>2, <1>3, TouchIsTame, TameTwice
<1>5. Minded(x)
  BY <1>4, TameIsMinded
<1>6. Tame(k, d)
  BY <1>4, <1>5, BrakeWriteIsTame, TameTwice
<1> QED
  BY <1>1, <1>6

LEMMA GearIsTame ==
  ASSUME NEW k, Rigged(k), NEW g \in {"D", "N"}
  PROVE  Tame(k, Gear(k, g))
<1>1. "drive" \in Links /\ Frame("gear", g) \in DriveFrames /\ ~Feeds(Frame("gear", g)) /\ "gear" # "steer"
  BY FramesFit DEF Links, FramesOf, Feeds, Frame
<1> QED
  BY <1>1, WriteIsTame DEF Gear

\* The steering itself: only a host that is heard turns it.
LEMMA SteerIsSteady ==
  ASSUME NEW k, Rigged(k), NEW dir \in {"stop", "turn"}, HostLive(k)
  PROVE  Steadies(k, Steer(k, dir))
<1> DEFINE x == [k EXCEPT !.steer = dir]
           w == WriteInStop(x, "drive", "steer", dir, {})
           d == Write(x, "drive", "steer", dir, {})
<1>1. Same(k, x, {"steer"}) /\ x.steer = dir
  BY DEF Same, Rigged, Fields
<1> HIDE DEF x
<1>2. x.wire = k.wire /\ x.up = k.up /\ x.broken = k.broken /\ x.hb = k.hb /\ Rigged(x)
  <2>1. x.wire = k.wire /\ x.up = k.up /\ x.broken = k.broken /\ x.hb = k.hb
    BY <1>1 DEF Same, Fields
  <2> QED
    BY <1>1, <2>1 DEF Same, Rigged
<1>3. Sent(x, w, Frame("steer", dir))
  <2>1. "drive" \in Links /\ Frame("steer", dir) \in DriveFrames
    BY FramesFit DEF Links, FramesOf
  <2> QED
    BY <1>2, <2>1, WriteInStopSends
<1> HIDE DEF w
<1>4. Steadies(k, w)
  <2>1. CASE dir = "turn"
    <3>1. Steadies(k, x)
      BY <1>1, <1>2, <2>1, StillIsSteady
    <3>2. HostLive(x) /\ x.steer = "turn" /\ Sent(x, w, SteerTurn)
      BY <1>1, <1>2, <1>3, <2>1 DEF HostLive, SteerTurn
    <3>3. Steadies(x, w)
      BY <1>2, <3>2, TurnIsSteady
    <3> QED
      BY <3>1, <3>3, SteadiesTwice
  <2>2. CASE dir = "stop"
    <3>1. /\ Rigged(w) /\ w.hb = k.hb /\ w.broken = k.broken /\ w.steer = "stop"
          /\ Goes(x, "drive") <=> Goes(k, "drive")
      BY <1>1, <1>2, <1>3, <2>2 DEF Sent, Goes
    <3>2. IF Goes(k, "drive") THEN w.wire["drive"] = Append(k.wire["drive"], SteerStop) /\ w.up["drive"] = k.up["drive"]
          ELSE w.wire["drive"] = k.wire["drive"]
      BY <1>2, <1>3, <2>2, <3>1 DEF Sent, SteerStop
    <3>3. k.wire["drive"] \in Seq(DriveFrames)
      BY DEF Rigged
    <3>4. \A i \in DOMAIN k.wire["drive"] : k.wire["drive"][i] = SteerTurn =>
             \E j \in DOMAIN k.wire["drive"] : k.wire["drive"][j] = SteerTurn
      OBVIOUS
    <3>5. Tame(k, w)
      BY <3>1, <3>2, <3>3, <3>4, StopIsSteady
    <3> QED
      BY <3>5 DEF Tame
  <2> QED
    BY <2>1, <2>2
<1>5. Steadies(w, SafeStop(w, TRUE))
  BY <1>4, SafeStopIsTame DEF Tame, Steadies
<1>6. Steadies(k, d)
  BY <1>4, <1>5, SteadiesTwice DEF Write, w
<1> QED
  BY <1>6 DEF Steer, x

\* The latch goes: a stopped vehicle does not turn.
LEMMA UnlatchedIsTame ==
  ASSUME NEW k, Rigged(k), Minded(k)
  PROVE  Tame(k, Unlatched(k))
<1> DEFINE m == Unmarked(k, "stop")
           u == [m EXCEPT !.stopped = FALSE, !.whole = TRUE, !.stopApply = Never]
           v == [u EXCEPT !.moving = FALSE]
<1>1. Tame(k, m) /\ Rigged(m)
  BY UnmarkedIsTame DEF Aside
<1> HIDE DEF m
<1>2. Same(m, u, {"stopped", "whole", "stopApply"}) /\ {"stopped", "whole", "stopApply"} \cap Spared = {}
  BY <1>1 DEF Same, Rigged, Spared
<1> HIDE DEF u
<1>3. Tame(k, u) /\ Rigged(u)
  BY <1>1, <1>2, TouchIsTame, TameTwice
<1>4. Same(u, v, {"moving"}) /\ {"moving"} \cap Spared = {}
  BY <1>3 DEF Same, Rigged, Spared
<1> HIDE DEF v
<1>5. Tame(k, v) /\ Rigged(v)
  BY <1>3, <1>4, TouchIsTame, TameTwice
<1>6. Minded(v)
  BY <1>5, TameIsMinded
<1>7. Tame(k, Write(v, "drive", "brake", "stop", {}))
  BY <1>5, <1>6, BrakeWriteIsTame, TameTwice
<1> QED
  BY <1>3, <1>7 DEF Unlatched, m, u, v

LEMMA ClearFaultsIsTame ==
  ASSUME NEW k, Rigged(k), Minded(k)
  PROVE  Tame(k, ClearFaults(k))
<1> DEFINE u == [k EXCEPT !.faulted = FALSE, !.boardTripped = FALSE]
           v == Unlatched(u)
           w == [v EXCEPT !.alive = FALSE]
<1>1. Same(k, u, {"faulted", "boardTripped"}) /\ {"faulted", "boardTripped"} \cap Spared = {}
  BY DEF Same, Rigged, Spared
<1> HIDE DEF u
<1>2. Tame(k, u) /\ Rigged(u) /\ Minded(u)
  BY <1>1, TouchIsTame, TameIsMinded
<1>3. Tame(k, v) /\ Rigged(v)
  BY <1>2, UnlatchedIsTame, TameTwice DEF Tame, Steadies
<1> HIDE DEF v
<1>4. Same(v, w, {"alive"}) /\ {"alive"} \cap Spared = {}
  BY <1>3 DEF Same, Rigged, Spared
<1> HIDE DEF w
<1>5. Tame(k, w) /\ Rigged(w)
  BY <1>3, <1>4, TouchIsTame, TameTwice
<1>6. Tame(k, WriteDuty(w, "zero"))
  BY <1>5, WriteDutyIsTame, TameTwice
<1> QED
  BY <1>6 DEF ClearFaults, u, v, w

------------------------------------------------------------------------------
(* Replies, the tick and the adapter, and the steering.                       *)

LEMMA OnReplyIsTame ==
  ASSUME NEW k, Rigged(k), NEW l \in Links, NEW r, k.pending["drive"] \in Seq(TxnsOf("drive"))
  PROVE  Tame(k, OnReply(k, l, r))
<1> DEFINE w == Waiting(k, l, r.cmd)
           i == CHOOSE j \in w : \A n \in w : j <= n
           t == k.pending[l][i]
           a == [k EXCEPT !.pending[l] = RemoveAt(@, i),
                          !.whole = @ /\ ("stop" \in t.marks => AcksStop(l, t, r))]
<1>1. OnReply(k, l, r) = IF w = {} THEN k
                         ELSE IF l = "accel" THEN OnAccelReply(a, t, r) ELSE OnDriveReply(a, t, r)
  BY DEF OnReply
<1>0. ASSUME w # {}, l = "drive"
      PROVE  r.cmd \in {"gear", "brake", "alive", "angles", "steer"}
  <2>1. PICK j \in DOMAIN k.pending[l] : k.pending[l][j].cmd = r.cmd
    BY <1>0 DEF Waiting
  <2>2. k.pending["drive"][j] \in TxnsOf("drive")
    BY <1>0, <2>1
  <2> DEFINE x == k.pending["drive"][j]
  <2>3. Frame(x.cmd, x.arg) \in DriveFrames
    BY <2>2 DEF TxnsOf, FramesOf, Frame
  <2> HIDE DEF x
  <2>4. x.cmd \in {"gear", "brake", "alive", "angles", "steer"}
    BY <2>3 DEF Frame, DriveFrames
  <2> QED
    BY <1>0, <2>1, <2>4 DEF x
<1> HIDE DEF w, i, t
<1>2. Same(k, a, {"pending", "whole"}) /\ {"pending", "whole"} \cap Spared = {}
  BY DEF Same, Rigged, Spared
<1> HIDE DEF a
<1>3. Tame(k, a) /\ Rigged(a)
  BY <1>2, TouchIsTame
<1>4. ASSUME NEW d, NEW X, Same(a, d, X), X \cap Spared = {}
      PROVE  Tame(k, d) /\ \A brake : Tame(k, Fault(d, brake))
  BY <1>3, <1>4, TouchIsTame, FaultIsTame, TameTwice
<1>5. Tame(k, OnAccelReply(a, t, r))
  <2> DEFINE b == DutyAcked(a, t, r)
             e == [a EXCEPT !.timeouts = r.count]
  <2>1. Same(a, b, {"acked", "latestAcked", "alive"}) /\ Same(a, e, {"timeouts"}) /\ Same(a, a, {})
    BY <1>3 DEF Same, Rigged, DutyAcked
  <2>2. {"acked", "latestAcked", "alive"} \cap Spared = {} /\ {"timeouts"} \cap Spared = {} /\ {} \cap Spared = {}
    BY DEF Spared
  <2>3. OnAccelReply(a, t, r) \in {a, b, e, Fault(a, FALSE), Fault(e, FALSE)}
    BY DEF OnAccelReply, ReadBack
  <2> HIDE DEF b, e
  <2> QED
    BY <1>4, <2>1, <2>2, <2>3
<1>6. ASSUME w # {}, l = "drive" PROVE Tame(k, OnDriveReply(a, t, r))
  <2> DEFINE g == [a EXCEPT !.gear = IF r.ok THEN t.arg ELSE "unknown"]
             b == [a EXCEPT !.applied = FALSE]
             u == [a EXCEPT !.trips = r.count]
             v == [u EXCEPT !.announced = FALSE]
             p == [a EXCEPT !.at = r.at, !.readAge = 0]
  <2>1. /\ Same(a, a, {}) /\ Same(a, g, {"gear"}) /\ Same(a, b, {"applied"}) /\ Same(a, u, {"trips"})
        /\ Same(a, v, {"trips", "announced"}) /\ Same(a, p, {"at", "readAge"})
    BY <1>3 DEF Same, Rigged
  <2>2. /\ {} \cap Spared = {} /\ {"gear"} \cap Spared = {} /\ {"applied"} \cap Spared = {}
        /\ {"trips"} \cap Spared = {} /\ {"trips", "announced"} \cap Spared = {}
        /\ {"at", "readAge"} \cap Spared = {}
    BY DEF Spared
  <2>3. NoteTrips(a, r.count) \in {u, v, Fault(u, FALSE)}
    BY DEF NoteTrips
  <2>4. OnBrakeReply(a, t, r) \in {a, b, Fault(a, TRUE)}
    BY DEF OnBrakeReply
  <2> HIDE DEF u, v, b
  <2>5. Tame(k, a) /\ Tame(k, g) /\ Tame(k, p) /\ Tame(k, Fault(a, TRUE))
    BY <1>4, <2>1, <2>2
  <2>6. Tame(k, NoteTrips(a, r.count)) /\ Tame(k, OnBrakeReply(a, t, r))
    BY <1>4, <2>1, <2>2, <2>3, <2>4
  <2> HIDE DEF g, p
  <2>7. CASE r.cmd = "gear"
    BY <2>5, <2>7 DEF OnDriveReply, g
  <2>8. CASE r.cmd = "brake"
    BY <2>6, <2>8 DEF OnDriveReply
  <2>9. CASE r.cmd = "alive"
    BY <2>6, <2>9 DEF OnDriveReply
  <2>10. CASE r.cmd = "angles"
    BY <2>5, <2>10 DEF OnDriveReply, p
  <2>11. CASE r.cmd = "steer"
    BY <2>5, <2>11 DEF OnDriveReply
  <2> QED
    BY <1>0, <1>6, <2>7, <2>8, <2>9, <2>10, <2>11
<1> QED
  BY <1>1, <1>5, <1>6, TameSelf DEF Links

LEMMA OnLineIsTame ==
  ASSUME NEW k, Typed(k), NEW l \in Links, NEW r
  PROVE  Tame(k, OnLine(k, l, r))
<1> DEFINE h == IF l = "accel" THEN [k EXCEPT !.heard = TRUE] ELSE k
           v == [h EXCEPT !.announced = TRUE]
<1>1. OnLine(k, l, r) = IF r.cmd = "trip" THEN Fault(v, FALSE) ELSE OnReply(h, l, r)
  BY DEF OnLine
<1>2. Rigged(k) /\ k.pending["drive"] \in Seq(TxnsOf("drive"))
  BY TypedIsRigged DEF Typed, Ports, Links
<1>3. /\ Same(k, h, {"heard"}) /\ Same(k, v, {"heard", "announced"})
      /\ {"heard"} \cap Spared = {} /\ {"heard", "announced"} \cap Spared = {}
  BY <1>2 DEF Same, Rigged, Spared
<1> HIDE DEF h, v
<1>4. Tame(k, h) /\ Rigged(h) /\ Tame(k, v) /\ Rigged(v)
  BY <1>2, <1>3, TouchIsTame
<1>5. h.pending["drive"] \in Seq(TxnsOf("drive"))
  BY <1>2, <1>3 DEF Same, Fields
<1>6. Tame(k, Fault(v, FALSE))
  BY <1>4, FaultIsTame, TameTwice
<1>7. Tame(k, OnReply(h, l, r))
  BY <1>4, <1>5, OnReplyIsTame, TameTwice
<1> QED
  BY <1>1, <1>6, <1>7

\* The reader gave the link up: its port is broken.
LEMMA LinkLostIsTame ==
  ASSUME NEW k, Rigged(k), NEW l \in Links, l \in k.broken
  PROVE  Tame(k, LinkLost(k, l))
<1> DEFINE u == [k EXCEPT !.up[l] = FALSE]
<1>1. Same(k, u, {"up"}) /\ u.up = [k.up EXCEPT ![l] = FALSE]
  BY DEF Same, Rigged, Fields
<1> HIDE DEF u
<1>2. u.wire = k.wire /\ u.hb = k.hb /\ u.broken = k.broken /\ u.steer = k.steer /\ DOMAIN u = Fields
  BY <1>1 DEF Same, Fields
<1>3. Rigged(u) /\ (u.up["drive"] = k.up["drive"] \/ "drive" \in k.broken)
  BY <1>1, <1>2 DEF Rigged, Links
<1>4. Tame(k, u)
  BY <1>2, <1>3, StillIsSteady DEF Tame
<1>5. Tame(k, Fault(u, TRUE))
  BY <1>3, <1>4, FaultIsTame, TameTwice
<1> QED
  BY <1>5 DEF LinkLost, u

LEMMA DeadlineIsTame ==
  ASSUME NEW k, Rigged(k), NEW l \in Links
  PROVE  Tame(k, Deadline(k, l))
<1> DEFINE u == [k EXCEPT !.pending[l] = <<>>, !.alive = @ /\ l # "accel"]
<1>1. Same(k, u, {"pending", "alive"}) /\ {"pending", "alive"} \cap Spared = {}
  BY DEF Same, Rigged, Spared
<1> HIDE DEF u
<1>2. Tame(k, Fault(u, TRUE))
  BY <1>1, TouchIsTame, FaultIsTame, TameTwice
<1> QED
  BY <1>2, TameSelf DEF Deadline, u

\* What is commanded to turn is minded, or stopped over it.
LEMMA HeartbeatCheckedMinds ==
  ASSUME NEW k, Rigged(k), Sound(k)
  PROVE  Tame(k, HeartbeatChecked(k)) /\ Minded(HeartbeatChecked(k))
<1>1. CASE InMotion(k) /\ ~k.stopped /\ ~HostLive(k)
  BY <1>1, SafeStopIsTame DEF HeartbeatChecked, Minded
<1>2. CASE ~(InMotion(k) /\ ~k.stopped /\ ~HostLive(k))
  <2>1. HeartbeatChecked(k) = k
    BY <1>2 DEF HeartbeatChecked
  <2>2. Minded(k)
    BY <1>2 DEF Minded, InMotion, Sound
  <2> QED
    BY <2>1, <2>2, TameSelf
<1> QED
  BY <1>1, <1>2

LEMMA DriveKeptAliveIsTame ==
  ASSUME NEW k, Rigged(k), Minded(k)
  PROVE  Tame(k, DriveKeptAlive(k))
<1> DEFINE u == [k EXCEPT !.moving = FALSE]
<1>1. Tame(k, Write(k, "drive", "alive", "", {}))
  <2>1. "drive" \in Links /\ Frame("alive", "") \in DriveFrames /\ "alive" # "steer"
    BY FramesFit DEF Links, FramesOf
  <2> QED
    BY <2>1, WriteIsTame
<1>2. Same(k, u, {"moving"}) /\ {"moving"} \cap Spared = {}
  BY DEF Same, Rigged, Spared
<1> HIDE DEF u
<1>3. Tame(k, u) /\ Rigged(u) /\ Minded(u)
  BY <1>2, TouchIsTame, TameIsMinded
<1>4. Tame(k, Write(u, "drive", "brake", "stop", {}))
  BY <1>3, BrakeWriteIsTame, TameTwice
<1> QED
  BY <1>1, <1>4, TameSelf DEF DriveKeptAlive, u

LEMMA AccelProbedIsTame ==
  ASSUME NEW k, Rigged(k)
  PROVE  Tame(k, AccelProbed(k))
<1>1. "accel" \in Links /\ "accel" # "drive"
  BY DEF Links
<1>2. \A cmd : Tame(k, Write(k, "accel", cmd, "", {}))
  BY <1>1, WriteIsTame
<1> QED
  BY <1>2, TameSelf DEF AccelProbed

LEMMA PolledIsTame ==
  ASSUME NEW k, Rigged(k)
  PROVE  Tame(k, Polled(k))
<1>1. "drive" \in Links /\ Frame("angles", "") \in DriveFrames /\ ~Feeds(Frame("angles", "")) /\ "angles" # "steer"
  BY FramesFit DEF Links, FramesOf, Feeds, Frame
<1>2. Tame(k, Write(k, "drive", "angles", "", {}))
  BY <1>1, WriteIsTame
<1> QED
  BY <1>2, TameSelf DEF Polled

LEMMA BrakeBoundedIsTame ==
  ASSUME NEW k, Rigged(k), Minded(k)
  PROVE  Tame(k, BrakeBounded(k))
<1> DEFINE u == [k EXCEPT !.moveDir = "none", !.moveAge = 0]
           v == [k EXCEPT !.moveDir = "none", !.moveAge = 0, !.moving = FALSE]
           halted == Write(v, "drive", "brake", "stop", {})
<1>1. BrakeBounded(k) \in {k, u, halted, Fault(halted, TRUE)}
  BY DEF BrakeBounded
<1>2. /\ Same(k, u, {"moveDir", "moveAge"}) /\ {"moveDir", "moveAge"} \cap Spared = {}
      /\ Same(k, v, {"moveDir", "moveAge", "moving"}) /\ {"moveDir", "moveAge", "moving"} \cap Spared = {}
  BY DEF Same, Rigged, Spared
<1> HIDE DEF u, v
<1>3. Tame(k, u) /\ Tame(k, v) /\ Rigged(v) /\ Minded(v)
  BY <1>2, TouchIsTame, TameIsMinded
<1>4. Tame(k, halted) /\ Rigged(halted)
  BY <1>3, BrakeWriteIsTame, TameTwice DEF Tame, Steadies
<1> HIDE DEF halted
<1>5. Tame(k, Fault(halted, TRUE))
  BY <1>4, FaultIsTame, TameTwice
<1> QED
  BY <1>1, <1>3, <1>4, <1>5, TameSelf

LEMMA TickIsTame ==
  ASSUME NEW k, Typed(k), Sound(k)
  PROVE  Tame(k, Tick(k))
<1> DEFINE k1 == Deadline(k, "accel")
           k2 == Deadline(k1, "drive")
           k3 == HeartbeatChecked(k2)
           k4 == DriveKeptAlive(k3)
           k5 == AccelProbed(k4)
           k6 == Polled(k5)
           k7 == BrakeBounded(k6)
           d == [k7 EXCEPT !.ticked = TRUE]
<1>0. "accel" \in Links /\ "drive" \in Links /\ Rigged(k)
  BY TypedIsRigged DEF Links
<1>1. Tick(k) = d
  BY DEF Tick
<1>2. Tame(k, k1) /\ Typed(k1) /\ Sound(k1)
  BY <1>0, DeadlineIsTame, DeadlineDoes DEF Answered, Calm, Fair
<1> HIDE DEF k1
<1>3. Tame(k, k2) /\ Rigged(k2) /\ Sound(k2)
  <2>1. Tame(k1, k2)
    BY <1>0, <1>2, TypedIsRigged, DeadlineIsTame
  <2>2. Typed(k2) /\ Sound(k2)
    BY <1>0, <1>2, DeadlineDoes DEF Answered, Calm, Fair
  <2> HIDE DEF k2
  <2> QED
    BY <1>2, <2>1, <2>2, TypedIsRigged, TameTwice
<1> HIDE DEF k2
<1>4. Tame(k, k3) /\ Rigged(k3) /\ Minded(k3)
  BY <1>3, HeartbeatCheckedMinds, TameTwice DEF Tame, Steadies
<1> HIDE DEF k3
<1>5. Tame(k, k4) /\ Rigged(k4) /\ Minded(k4)
  BY <1>4, DriveKeptAliveIsTame, TameTwice, TameIsMinded
<1> HIDE DEF k4
<1>6. Tame(k, k5) /\ Rigged(k5) /\ Minded(k5)
  BY <1>5, AccelProbedIsTame, TameTwice, TameIsMinded
<1> HIDE DEF k5
<1>7. Tame(k, k6) /\ Rigged(k6) /\ Minded(k6)
  BY <1>6, PolledIsTame, TameTwice, TameIsMinded
<1> HIDE DEF k6
<1>8. Tame(k, k7) /\ Rigged(k7) /\ Minded(k7)
  BY <1>7, BrakeBoundedIsTame, TameTwice, TameIsMinded
<1> HIDE DEF k7
<1>9. Same(k7, d, {"ticked"}) /\ {"ticked"} \cap Spared = {}
  BY <1>8 DEF Same, Rigged, Spared
<1> HIDE DEF d
<1>10. Tame(k, d)
  BY <1>8, <1>9, TouchIsTame, TameTwice
<1> QED
  BY <1>1, <1>10

\* The parts of apply(), the steering the last of them.
LEMMA TryIsSteady ==
  ASSUME NEW x, Rigged(x.c), HostLive(x.c), NEW cmd \in Commands
  PROVE  /\ Tame(x.c, TryGear(x, cmd).c) /\ Tame(x.c, TryBrake(x, cmd).c)
         /\ Tame(x.c, TryThrottle(x, cmd).c) /\ Steadies(x.c, TrySteer(x, cmd).c)
<1>1. cmd.gear \in {"D", "N"} /\ cmd.steer \in {"stop", "turn"} /\ Minded(x.c)
  BY RigAssumption DEF Commands, Minded
<1>2. Tame(x.c, x.c)
  BY TameSelf
<1>3. Tame(x.c, TryGear(x, cmd).c)
  BY <1>1, <1>2, GearIsTame DEF TryGear
<1>4. Tame(x.c, TryBrake(x, cmd).c)
  BY <1>1, <1>2, ApplyBrakeIsTame, ReleaseBrakeIsTame DEF TryBrake
<1>5. Tame(x.c, TryThrottle(x, cmd).c)
  BY <1>2, SetThrottleIsTame DEF TryThrottle
<1>6. Steadies(x.c, TrySteer(x, cmd).c)
  BY <1>1, <1>2, SteerIsSteady DEF TrySteer, Tame
<1> QED
  BY <1>3, <1>4, <1>5, <1>6

LEMMA AppliedIsSteady ==
  ASSUME NEW x, Rigged(x.c), HostLive(x.c), NEW cmd \in Commands
  PROVE  Steadies(x.c, Applied(x, cmd).c)
<1> DEFINE y1 == TryGear(x, cmd)
           y2 == TryBrake(y1, cmd)
           y3 == TryThrottle(y2, cmd)
           y4 == TrySteer(y3, cmd)
<1>1. Applied(x, cmd) = y4
  BY DEF Applied
<1>2. Steadies(x.c, y1.c)
  BY TryIsSteady DEF Tame
<1> HIDE DEF y1
<1>3. Rigged(y1.c) /\ HostLive(y1.c)
  BY <1>2 DEF Steadies, HostLive
<1>4. Steadies(y1.c, y2.c)
  BY <1>3, TryIsSteady DEF Tame
<1> HIDE DEF y2
<1>5. Rigged(y2.c) /\ HostLive(y2.c)
  BY <1>3, <1>4 DEF Steadies, HostLive
<1>6. Steadies(y2.c, y3.c)
  BY <1>5, TryIsSteady DEF Tame
<1> HIDE DEF y3
<1>7. Rigged(y3.c) /\ HostLive(y3.c)
  BY <1>5, <1>6 DEF Steadies, HostLive
<1>8. Steadies(y3.c, y4.c)
  BY <1>7, TryIsSteady
<1> HIDE DEF y4
<1>9. Steadies(x.c, y4.c)
  BY <1>2, <1>4, <1>6, <1>8, SteadiesTwice
<1> QED
  BY <1>1, <1>9

------------------------------------------------------------------------------
(* The rig, and the steering.                                                 *)

\* A turning drive module has not tripped, and what it was told and is yet to be told
\* keeps it turning no longer than the window and its own silence.
SteerInv ==
    /\ drive.tripped => drive.steer = "stop"
    /\ drive.steer = "turn" => drive.quiet <= Silence /\ c.hb <= Heartbeat + Silence
    /\ Steady(c, drive.steer, drive.quiet)

\* The host's heartbeat is of now.
LEMMA FedIsSteady ==
  ASSUME Rigged(c), NEW s, NEW q \in Nat, Steady(c, s, q)
  PROVE  Rigged(Fed) /\ HostLive(Fed) /\ Fed.hb = 0 /\ Steady(Fed, s, q)
<1>1. Same(c, Fed, {"hb"}) /\ Fed.hb = 0
  BY DEF Fed, Same, Rigged, Fields
<1>2. Fed.wire = c.wire /\ Fed.up = c.up /\ Fed.broken = c.broken /\ Fed.steer = c.steer /\ DOMAIN Fed = Fields
  BY <1>1 DEF Same, Fields
<1>3. Heartbeat \in Nat /\ 0 <= Heartbeat + q /\ 0 <= Heartbeat
  BY TimesAssumption
<1>4. HostLive(Fed) /\ Rigged(Fed)
  BY <1>1, <1>2, <1>3 DEF HostLive, Rigged
<1>5. Steady(Fed, s, q)
  BY <1>1, <1>2, <1>3, <1>4 DEF Steady
<1> QED
  BY <1>1, <1>4, <1>5

\* A call of the bridge, or a line of a board.
LEMMA SteadyStep ==
  ASSUME RigInv, SteerInv, drive' = drive, NEW k, k \in {c, Fed}, Steadies(k, c')
  PROVE  SteerInv'
<1>1. Rigged(c) /\ c.hb \in Nat /\ drive.quiet \in Nat /\ {Heartbeat, Silence} \subseteq Nat
  BY ControlsResemble, TypedIsRigged, TimesAssumption, SilenceAssumption
     DEF Rigged, RigInv, RigTyped, AroundTyped, DriveBoards
<1>2. k.hb <= c.hb /\ k.hb \in Nat /\ Steady(k, drive.steer, drive.quiet)
  BY <1>1, FedIsSteady DEF SteerInv
<1>3. c'.hb = k.hb /\ Steady(c', drive.steer, drive.quiet)
  BY <1>1, <1>2 DEF Steadies
<1>4. drive.steer = "turn" => drive.quiet <= Silence /\ c'.hb <= Heartbeat + Silence
  BY <1>1, <1>2, <1>3 DEF SteerInv
<1> QED
  BY <1>3, <1>4 DEF SteerInv

\* What the drive module makes of a frame.
LEMMA DriveTakesSteers ==
  ASSUME NEW b \in DriveBoards(Horizon), NEW f \in DriveFrames, b.tripped => b.steer = "stop"
  PROVE  LET d == DriveTakes(b, f)
         IN  /\ d.steer = "turn" => f = SteerTurn \/ (b.steer = "turn" /\ f # SteerStop)
             /\ d.quiet = b.quiet \/ (d.quiet = 0 /\ Feeds(f))
             /\ d.tripped => d.steer = "stop"
             /\ ~Feeds(f) => d = b
<1> DEFINE motion == f.cmd \in {"brake", "steer"}
           cleared == IF motion /\ f.arg = "stop" THEN [b EXCEPT !.tripped = FALSE] ELSE b
           fresh == [cleared EXCEPT !.quiet = 0]
           why == WhyNot(b, f)
           d == DriveTakes(b, f)
<1> SUFFICES /\ d.steer = "turn" => f = SteerTurn \/ (b.steer = "turn" /\ f # SteerStop)
             /\ d.quiet = b.quiet \/ (d.quiet = 0 /\ Feeds(f))
             /\ d.tripped => d.steer = "stop"
             /\ ~Feeds(f) => d = b
  OBVIOUS
<1>1. /\ f.cmd \in {"brake", "steer", "gear", "alive", "angles"}
      /\ f.cmd = "brake" => f.arg \in {"stop", "apply", "release"}
      /\ f.cmd = "steer" => f.arg \in {"stop", "turn"} /\ f = Frame("steer", f.arg)
  BY DEF DriveFrames, Frame
<1>2. f = SteerStop => f.cmd = "steer" /\ f.arg = "stop"
  BY DEF SteerStop, Frame
<1>3. /\ cleared \in DriveBoards(Horizon) /\ cleared.steer = b.steer
      /\ cleared.tripped = IF motion /\ f.arg = "stop" THEN FALSE ELSE b.tripped
  BY DEF DriveBoards
<1> HIDE DEF cleared
<1>4. /\ fresh.quiet = 0 /\ fresh.steer = b.steer /\ fresh.tripped = cleared.tripped
      /\ DOMAIN fresh = DOMAIN b /\ "steer" \in DOMAIN fresh
  BY <1>3 DEF DriveBoards
<1> HIDE DEF fresh
<1>5. \A dir : /\ SwitchBrake(fresh, dir).quiet = 0 /\ SwitchBrake(fresh, dir).steer = b.steer
               /\ SwitchBrake(fresh, dir).tripped = cleared.tripped
               /\ SwitchBrake(b, dir).quiet = b.quiet /\ SwitchBrake(b, dir).steer = b.steer
               /\ SwitchBrake(b, dir).tripped = b.tripped
  BY <1>4 DEF SwitchBrake, DriveBoards
<1>6. why \in {"WD_TRIPPED", "STALL", "AT_LIMIT", ""}
  BY DEF WhyNot, BlockReason
<1>7. CASE why = "WD_TRIPPED"
  <2>1. d = b
    BY <1>7 DEF DriveTakes
  <2>2. f # SteerStop
    BY <1>2, <1>7 DEF WhyNot, Refused, BlockReason
  <2> QED
    BY <2>1, <2>2
<1>8. CASE why \in {"STALL", "AT_LIMIT"}
  <2>1. d = SwitchBrake(b, "stop")
    BY <1>8 DEF DriveTakes
  <2>2. f.cmd = "brake"
    BY <1>8 DEF WhyNot
  <2> QED
    BY <1>2, <1>5, <2>1, <2>2 DEF Feeds
<1>9. CASE why = "" /\ f.cmd = "brake"
  <2>1. d = SwitchBrake(fresh, f.arg)
    BY <1>9 DEF DriveTakes, fresh, cleared
  <2>2. cleared.tripped => b.tripped
    BY <1>3
  <2> QED
    BY <1>2, <1>5, <1>9, <2>1, <2>2 DEF Feeds
<1>10. CASE why = "" /\ f.cmd = "steer"
  <2>1. d = [fresh EXCEPT !.steer = f.arg]
    BY <1>10 DEF DriveTakes, fresh, cleared
  <2>2. d.steer = f.arg /\ d.quiet = 0 /\ d.tripped = cleared.tripped
    BY <1>4, <2>1
  <2>3. ~cleared.tripped
    <3>1. CASE f.arg = "stop"
      BY <1>3, <1>10, <3>1
    <3>2. CASE f.arg = "turn"
      <4>1. ~b.tripped
        BY <1>10, <3>2 DEF WhyNot, Refused
      <4> QED
        BY <1>3, <4>1, <3>2
    <3> QED
      BY <1>1, <1>10, <3>1, <3>2
  <2> QED
    BY <1>1, <1>10, <2>2, <2>3 DEF Feeds, SteerTurn
<1>11. CASE why = "" /\ f.cmd = "alive"
  <2>1. d = fresh
    BY <1>11 DEF DriveTakes, fresh, cleared
  <2>2. cleared.tripped = b.tripped
    BY <1>3, <1>11
  <2> QED
    BY <1>2, <1>4, <1>11, <2>1, <2>2 DEF Feeds
<1>12. CASE why = "" /\ f.cmd \in {"gear", "angles"}
  <2>1. d = b
    BY <1>12 DEF DriveTakes
  <2> QED
    BY <1>2, <1>12, <2>1
<1> QED
  BY <1>1, <1>6, <1>7, <1>8, <1>9, <1>10, <1>11, <1>12

\* What is left of a wire turns nothing the whole did not.
LEMMA TurnsTaken ==
  ASSUME NEW v \in Seq(DriveFrames), v # <<>>, NEW s, NEW t,
         t = "turn" => Head(v) = SteerTurn \/ (s = "turn" /\ Head(v) # SteerStop),
         Turns(Tail(v), t)
  PROVE  Turns(v, s)
<1> DEFINE w == Tail(v)
<1>1. /\ Len(v) \in Nat \ {0} /\ DOMAIN v = 1 .. Len(v) /\ Head(v) = v[1]
      /\ DOMAIN w = 1 .. Len(v) - 1 /\ \A i \in DOMAIN w : w[i] = v[i + 1]
  OBVIOUS
<1> HIDE DEF w
<1>2. CASE t = "turn" /\ \A i \in DOMAIN w : w[i] # SteerStop
  <2>1. ASSUME NEW j \in DOMAIN v, j > 1 PROVE v[j] # SteerStop
    <3>1. j - 1 \in DOMAIN w /\ v[j] = w[j - 1]
      BY <1>1, <2>1
    <3> QED
      BY <1>2, <3>1
  <2>2. CASE Head(v) = SteerTurn
    BY <1>1, <2>1, <2>2 DEF Turns
  <2>3. CASE s = "turn" /\ Head(v) # SteerStop
    BY <1>1, <2>1, <2>3 DEF Turns
  <2> QED
    BY <1>2, <2>2, <2>3
<1>3. CASE \E i \in DOMAIN w : w[i] = SteerTurn /\ \A j \in DOMAIN w : j > i => w[j] # SteerStop
  <2>1. PICK i \in DOMAIN w : w[i] = SteerTurn /\ \A j \in DOMAIN w : j > i => w[j] # SteerStop
    BY <1>3
  <2>2. i + 1 \in DOMAIN v /\ v[i + 1] = SteerTurn
    BY <1>1, <2>1
  <2>3. ASSUME NEW j \in DOMAIN v, j > i + 1 PROVE v[j] # SteerStop
    <3>1. j - 1 \in DOMAIN w /\ j - 1 > i /\ v[j] = w[j - 1]
      BY <1>1, <2>3
    <3> QED
      BY <2>1, <3>1
  <2> QED
    BY <2>2, <2>3 DEF Turns
<1> QED
  BY <1>2, <1>3 DEF Turns, w

LEMMA DriveUntaken ==
  ASSUME RigInv, c.wire["drive"] # <<>>
  PROVE  LET k == Untaken("drive")
         IN  /\ Typed(k) /\ Rigged(k) /\ k.wire["drive"] = Tail(c.wire["drive"])
             /\ k.up = c.up /\ k.broken = c.broken /\ k.hb = c.hb /\ k.steer = c.steer
             /\ Head(c.wire["drive"]) \in DriveFrames
<1> DEFINE k == Untaken("drive")
<1>1. "drive" \in Links
  BY DEF Links
<1>2. Typed(k) /\ Rigged(k) /\ Head(c.wire["drive"]) \in DriveFrames
  BY <1>1, UntakenDoes, TypedIsRigged DEF Resembles, FramesOf
<1>3. DOMAIN c = Fields /\ DOMAIN c.wire = Links
  BY ControlsResemble DEF Typed, Ports
<1>4. /\ k.wire = [c.wire EXCEPT !["drive"] = Tail(@)]
      /\ k.up = c.up /\ k.broken = c.broken /\ k.hb = c.hb /\ k.steer = c.steer
  BY <1>3 DEF Untaken, Fields
<1> HIDE DEF k
<1>5. k.wire["drive"] = Tail(c.wire["drive"])
  BY <1>1, <1>3, <1>4
<1> QED
  BY <1>2, <1>4, <1>5 DEF k

\* The board takes a frame: one that feeds it while it goes on turning came within the
\* heartbeat's window.
LEMMA TakingIsSteady ==
  ASSUME RigInv, SteerInv, c.wire["drive"] # <<>>, drive' = DriveTakes(drive, Head(c.wire["drive"]))
  PROVE  /\ Steady(Untaken("drive"), drive'.steer, drive'.quiet)
         /\ drive'.tripped => drive'.steer = "stop"
         /\ drive'.steer = "turn" => drive'.quiet <= Silence /\ c.hb <= Heartbeat + Silence
<1> DEFINE v == c.wire["drive"]
           f == Head(v)
           k == Untaken("drive")
           s == drive.steer
           t == drive'.steer
<1>1. /\ Rigged(k) /\ k.wire["drive"] = Tail(v) /\ k.up = c.up /\ k.broken = c.broken
      /\ k.hb = c.hb /\ k.steer = c.steer /\ f \in DriveFrames /\ Typed(k)
  BY DriveUntaken
<1>2. v \in Seq(DriveFrames) /\ v # <<>>
  BY ControlsResemble, TypedWires
<1>3. drive \in DriveBoards(Horizon) /\ (drive.tripped => s = "stop")
  BY DEF RigInv, RigTyped, AroundTyped, SteerInv
<1>4. drive' = DriveTakes(drive, f)
  OBVIOUS
<1> HIDE DEF f, k
<1>5. /\ t = "turn" => f = SteerTurn \/ (s = "turn" /\ f # SteerStop)
      /\ drive'.quiet = drive.quiet \/ (drive'.quiet = 0 /\ Feeds(f))
      /\ drive'.tripped => t = "stop"
  BY <1>1, <1>3, <1>4, DriveTakesSteers
<1>6. Turns(Tail(v), t) => Turns(v, s)
  <2> HIDE DEF v, s, t
  <2> QED
    BY <1>2, <1>5, TurnsTaken DEF f
<1>7. Steady(c, s, drive.quiet)
  BY DEF SteerInv
<1>8. c.hb \in Nat /\ drive.quiet \in Nat /\ {Heartbeat, Silence} \subseteq Nat
  BY <1>3, ControlsResemble, TypedIsRigged, TimesAssumption, SilenceAssumption DEF Rigged, DriveBoards
<1>9. /\ 1 \in DOMAIN v /\ f = v[1] /\ DOMAIN v = 1 .. Len(v)
      /\ \A i \in DOMAIN Tail(v) : i + 1 \in DOMAIN v /\ Tail(v)[i] = v[i + 1]
  BY <1>2 DEF f
<1> HIDE DEF v
<1>10. Feeds(f) /\ Turns(v, s) => HostLive(c)
  BY <1>7, <1>9 DEF Steady, v
<1>11. Turns(Tail(v), t) => (k.steer = "turn" \/ "drive" \in k.broken) /\ k.hb <= Heartbeat + drive'.quiet
  <2> SUFFICES ASSUME Turns(Tail(v), t)
               PROVE  (k.steer = "turn" \/ "drive" \in k.broken) /\ k.hb <= Heartbeat + drive'.quiet
    OBVIOUS
  <2>1. (c.steer = "turn" \/ "drive" \in c.broken) /\ c.hb <= Heartbeat + drive.quiet
    BY <1>6, <1>7 DEF Steady, v
  <2>2. drive'.quiet = 0 /\ Feeds(f) => c.hb <= Heartbeat + drive'.quiet
    BY <1>6, <1>8, <1>10 DEF HostLive
  <2> QED
    BY <1>1, <1>5, <2>1, <2>2
<1>12. ASSUME ~HostLive(k)
       PROVE  /\ \A i \in DOMAIN Tail(v) : Tail(v)[i] # SteerTurn
              /\ (\E i \in DOMAIN Tail(v) : Feeds(Tail(v)[i])) => ~Turns(Tail(v), t)
  <2>1. ~HostLive(c)
    BY <1>1, <1>12 DEF HostLive
  <2>2. /\ \A i \in DOMAIN v : v[i] # SteerTurn
        /\ (\E i \in DOMAIN v : Feeds(v[i])) => ~Turns(v, s)
    BY <1>7, <2>1 DEF Steady, v
  <2> QED
    BY <1>6, <1>9, <2>2
<1>13. ~k.up["drive"] => "drive" \in k.broken
  BY <1>1, <1>7 DEF Steady
<1>14. Steady(k, t, drive'.quiet)
  BY <1>1, <1>11, <1>12, <1>13 DEF Steady
<1>15. t = "turn" => drive'.quiet <= Silence /\ c.hb <= Heartbeat + Silence
  <2> HAVE t = "turn"
  <2>1. CASE s = "turn"
    <3>1. drive.quiet <= Silence /\ c.hb <= Heartbeat + Silence
      BY <2>1 DEF SteerInv
    <3> QED
      BY <1>5, <1>8, <3>1
  <2>2. CASE s # "turn"
    <3>1. f = SteerTurn
      BY <1>5, <2>2
    <3>2. Feeds(f)
      BY <3>1 DEF Feeds, SteerTurn, Frame
    <3>3. HostLive(c)
      BY <1>7, <1>9, <3>1 DEF Steady, v
    <3>4. s = "stop"
      BY <1>3, <2>2 DEF DriveBoards
    <3>5. drive'.quiet <= Silence
      <4>1. drive'.quiet = 0
        <5>1. Refused(drive, f) = FALSE \/ drive.tripped
          BY DEF Refused
        <5>2. ~drive'.tripped
          BY <1>5
        <5>3. f.cmd = "steer" /\ f.arg = "turn"
          BY <3>1 DEF SteerTurn, Frame
        <5>4. ~drive.tripped
          <6>1. drive.tripped => DriveTakes(drive, f) = drive
            BY <5>3 DEF DriveTakes, WhyNot, Refused
          <6> QED
            BY <1>4, <2>2, <6>1
        <5>5. WhyNot(drive, f) = ""
          BY <5>3, <5>4 DEF WhyNot, Refused
        <5>6. drive' = [[drive EXCEPT !.quiet = 0] EXCEPT !.steer = "turn"]
          BY <1>4, <5>3, <5>5 DEF DriveTakes
        <5> QED
          BY <1>3, <5>6 DEF DriveBoards
      <4> QED
        BY <1>8, <4>1
    <3> QED
      BY <1>8, <3>3, <3>5 DEF HostLive
  <2> QED
    BY <2>1, <2>2
<1> QED
  BY <1>5, <1>14, <1>15 DEF k

\* What the board answers comes after.
LEMMA TakenStep ==
  ASSUME RigInv, SteerInv, c.wire["drive"] # <<>>, drive' = DriveTakes(drive, Head(c.wire["drive"])),
         Tame(Untaken("drive"), c')
  PROVE  SteerInv'
<1> DEFINE k == Untaken("drive")
<1>1. /\ Steady(k, drive'.steer, drive'.quiet)
      /\ drive'.tripped => drive'.steer = "stop"
      /\ drive'.steer = "turn" => drive'.quiet <= Silence /\ c.hb <= Heartbeat + Silence
  BY TakingIsSteady
<1>2. k.hb = c.hb
  BY DriveUntaken
<1> HIDE DEF k
<1>3. Tame(k, c')
  BY DEF k
<1>4. drive'.quiet \in Nat
  <2>1. drive \in DriveBoards(Horizon) /\ Head(c.wire["drive"]) \in DriveFrames
    BY DriveUntaken DEF RigInv, RigTyped, AroundTyped
  <2>2. drive' \in DriveBoards(Horizon)
    BY <2>1, DriveBoardDoes
  <2> QED
    BY <2>2, SilenceAssumption DEF DriveBoards
<1>5. c'.hb = c.hb /\ Steady(c', drive'.steer, drive'.quiet)
  BY <1>1, <1>2, <1>3, <1>4 DEF Tame, Steadies
<1> QED
  BY <1>1, <1>5 DEF SteerInv

LEMMA HeardIsTame ==
  ASSUME NEW k, Typed(k), NEW l \in Links, NEW r
  PROVE  Tame(k, Heard(k, l, r))
BY OnLineIsTame, TypedIsRigged, TameSelf DEF Heard

LEMMA ControlsRigged ==
  ASSUME RigInv
  PROVE  Rigged(c) /\ Rigged(Fed) /\ HostLive(Fed) /\ Typed(c) /\ Sound(c) /\ Typed(Fed)
BY ControlsResemble, FedResembles, TypedIsRigged DEF Resembles

LEMMA CommandSteers ==
  ASSUME RigInv, SteerInv, NEW cmd \in Commands, Command(cmd)
  PROVE  SteerInv'
<1> DEFINE x == [c |-> Fed, a |-> adapter]
           y == Applied(x, cmd)
<1>1. Steadies(Fed, Fed) /\ Steadies(Fed, y.c)
  BY ControlsRigged, TameSelf, AppliedIsSteady DEF Tame
<1>2. c' = Fed \/ c' = y.c
  BY DEF Command, Both
<1> HIDE DEF y
<1> QED
  BY <1>1, <1>2, SteadyStep DEF Command

LEMMA CallGoesOnSteers ==
  ASSUME RigInv, SteerInv, CallGoesOn
  PROVE  SteerInv'
<1> DEFINE x == [c |-> c, a |-> adapter]
           part == Head(call.todo)
           y == Try(part, x, call.cmd)
<1>1. call \in Calls /\ c.hb = 0
  BY DEF CallGoesOn, RigInv, RigTyped, AroundTyped, Commanded
<1>2. part \in {"gear", "brake", "throttle", "steer"} /\ call.cmd \in Commands
  BY <1>1, CallsGoOn DEF PartNames
<1>3. HostLive(c) /\ Rigged(c)
  BY <1>1, ControlsRigged, TimesAssumption DEF HostLive
<1> HIDE DEF part
<1>4. Steadies(c, y.c)
  <2>1. /\ Steadies(c, TryGear(x, call.cmd).c) /\ Steadies(c, TryBrake(x, call.cmd).c)
        /\ Steadies(c, TryThrottle(x, call.cmd).c) /\ Steadies(c, TrySteer(x, call.cmd).c)
    BY <1>2, <1>3, TryIsSteady DEF Tame
  <2> QED
    BY <1>2, <2>1 DEF Try
<1>5. c' = y.c
  BY DEF CallGoesOn, Both, part
<1> HIDE DEF y
<1> QED
  BY <1>4, <1>5, SteadyStep DEF CallGoesOn

\* The stops, the latch and the tick.
LEMMA CallsSteer ==
  ASSUME RigInv, SteerInv, EstopHeld \/ BridgeStops \/ Resume \/ HumanClears \/ TickRuns
  PROVE  SteerInv'
<1>1. ASSUME NEW k \in {c, Fed}, Stop(k) PROVE SteerInv'
  <2>1. Steadies(k, SafeStop(k, TRUE))
    BY <1>1, ControlsRigged, SafeStopIsTame DEF Tame
  <2>2. c' = SafeStop(k, TRUE) /\ drive' = drive
    BY <1>1 DEF Stop, Both, Stopping
  <2> QED
    BY <2>1, <2>2, SteadyStep
<1>2. CASE Resume
  <2>1. Minded(c)
    BY <1>2, ControlsRigged DEF Resume, CanResume, Sound, Minded
  <2>2. Steadies(c, c')
    BY <1>2, <2>1, ControlsRigged, UnlatchedIsTame DEF Resume, Tame
  <2> QED
    BY <1>2, <2>2, SteadyStep DEF Resume
<1>3. CASE HumanClears
  <2>1. Minded(c)
    BY <1>3, ControlsRigged DEF HumanClears, Sound, Minded
  <2>2. Steadies(c, c')
    BY <1>3, <2>1, ControlsRigged, ClearFaultsIsTame DEF HumanClears, Tame
  <2> QED
    BY <1>3, <2>2, SteadyStep DEF HumanClears
<1>4. CASE TickRuns
  <2>1. Steadies(c, c')
    BY <1>4, ControlsRigged, TickIsTame DEF TickRuns, Tame
  <2> QED
    BY <1>4, <2>1, SteadyStep DEF TickRuns
<1> QED
  BY <1>1, <1>2, <1>3, <1>4 DEF EstopHeld, BridgeStops

\* A reader takes a line, or ends.
LEMMA ReadersSteer ==
  ASSUME RigInv, SteerInv, NEW l \in Links, Read(l) \/ ReaderEnds(l)
  PROVE  SteerInv'
<1>1. CASE Read(l)
  <2>1. Steadies(c, c')
    BY <1>1, ControlsRigged, OnLineIsTame DEF Read, Tame
  <2> QED
    BY <1>1, <2>1, SteadyStep DEF Read
<1>2. CASE ReaderEnds(l)
  <2>1. Steadies(c, c')
    BY <1>2, ControlsRigged, LinkLostIsTame DEF ReaderEnds, Tame
  <2> QED
    BY <1>2, <2>1, SteadyStep DEF ReaderEnds
<1> QED
  BY <1>1, <1>2

LEMMA AccelUntaken ==
  ASSUME RigInv, c.wire["accel"] # <<>>
  PROVE  Tame(c, Untaken("accel")) /\ Typed(Untaken("accel"))
<1> DEFINE k == Untaken("accel")
<1>1. "accel" \in Links /\ "drive" \in Links /\ "accel" # "drive"
  BY DEF Links
<1>2. Typed(k)
  BY <1>1, UntakenDoes DEF Resembles
<1>3. DOMAIN c = Fields /\ DOMAIN c.wire = Links
  BY ControlsRigged DEF Typed, Ports
<1>4. /\ k.wire = [c.wire EXCEPT !["accel"] = Tail(@)]
      /\ k.up = c.up /\ k.broken = c.broken /\ k.hb = c.hb /\ k.steer = c.steer
  BY <1>3 DEF Untaken, Fields
<1> HIDE DEF k
<1>5. Aside(c, k)
  BY <1>1, <1>2, <1>3, <1>4, TypedIsRigged DEF Aside
<1> QED
  BY <1>2, <1>5, ControlsRigged, AsideIsTame DEF k

\* A board takes a frame.
LEMMA TakingsSteer ==
  ASSUME RigInv, SteerInv, ThrottleBoardTakes \/ DriveBoardTakes \/ SignalFails \/ \E l \in Links : LineLost(l)
  PROVE  SteerInv'
<1>0. "accel" \in Links /\ "drive" \in Links /\ "accel" # "drive"
  BY DEF Links
<1>1. CASE ThrottleBoardTakes
  <2> DEFINE k == Untaken("accel")
             r == ThrottleAnswers(throttle, Head(c.wire["accel"]))
  <2>1. Tame(c, k) /\ Typed(k) /\ c' = Heard(k, "accel", r) /\ drive' = drive
    BY <1>1, AccelUntaken DEF ThrottleBoardTakes, Answer
  <2> HIDE DEF k, r
  <2>2. Tame(k, c')
    BY <1>0, <2>1, HeardIsTame
  <2>3. Steadies(c, c')
    BY <2>1, <2>2, TameTwice DEF Tame
  <2> QED
    BY <2>1, <2>3, SteadyStep
<1>2. CASE DriveBoardTakes
  <2> DEFINE k == Untaken("drive")
             f == Head(c.wire["drive"])
             r == DriveAnswers(drive, f, TRUE)
  <2>1. c.wire["drive"] # <<>> /\ drive' = DriveTakes(drive, f) /\ c' = Heard(k, "drive", r)
    BY <1>2 DEF DriveBoardTakes, Answer
  <2>2. Typed(k)
    BY <2>1, DriveUntaken
  <2> HIDE DEF r
  <2>3. Tame(k, c')
    <3> HIDE DEF k
    <3> QED
      BY <1>0, <2>1, <2>2, HeardIsTame
  <2> QED
    BY <2>1, <2>3, TakenStep
<1>3. CASE SignalFails
  <2> DEFINE k == Untaken("drive")
             f == Head(c.wire["drive"])
             r == DriveAnswers(drive, f, FALSE)
  <2>1. c.wire["drive"] # <<>> /\ f.cmd = "angles" /\ drive' = drive /\ c' = Heard(k, "drive", r)
    BY <1>3 DEF SignalFails, Answer
  <2>2. Typed(k) /\ f \in DriveFrames
    BY <2>1, DriveUntaken
  <2>3. drive' = DriveTakes(drive, f)
    <3>1. ~Feeds(f) /\ drive \in DriveBoards(Horizon) /\ (drive.tripped => drive.steer = "stop")
      BY <2>1 DEF Feeds, RigInv, RigTyped, AroundTyped, SteerInv
    <3>2. DriveTakes(drive, f) = drive
      <4> HIDE DEF f
      <4> QED
        BY <2>2, <3>1, DriveTakesSteers
    <3> QED
      BY <2>1, <3>2
  <2> HIDE DEF r
  <2>4. Tame(k, c')
    <3> HIDE DEF k
    <3> QED
      BY <1>0, <2>1, <2>2, HeardIsTame
  <2> QED
    BY <2>1, <2>3, <2>4, TakenStep
<1>4. ASSUME NEW l \in Links, LineLost(l) PROVE SteerInv'
  <2>1. CASE l = "accel"
    <3>1. Tame(c, c') /\ drive' = drive
      BY <1>4, <2>1, AccelUntaken DEF LineLost
    <3> QED
      BY <3>1, SteadyStep DEF Tame
  <2>2. CASE l = "drive"
    <3>1. c.wire["drive"] # <<>> /\ c' = Untaken("drive") /\ drive' = DriveTakes(drive, Head(c.wire["drive"]))
      BY <1>4, <2>2 DEF LineLost
    <3>2. Tame(Untaken("drive"), c')
      BY <3>1, DriveUntaken, TameSelf
    <3> QED
      BY <3>1, <3>2, TakenStep
  <2> QED
    BY <2>1, <2>2 DEF Links
<1> QED
  BY <1>1, <1>2, <1>3, <1>4

\* A port breaks: from then on nothing is written to it.
LEMMA PortBreaksSteers ==
  ASSUME RigInv, SteerInv, NEW l \in Links, PortBreaks(l)
  PROVE  SteerInv'
<1>1. Same(c, c', {"broken"}) /\ c'.broken = c.broken \cup {l} /\ drive' = drive
  BY ControlsRigged DEF PortBreaks, Same, Typed, Fields
<1>2. c'.wire = c.wire /\ c'.up = c.up /\ c'.hb = c.hb /\ c'.steer = c.steer
  BY <1>1 DEF Same, Fields
<1>3. Steady(c', drive.steer, drive.quiet)
  BY <1>1, <1>2 DEF SteerInv, Steady, HostLive
<1> QED
  BY <1>1, <1>2, <1>3 DEF SteerInv

\* The brake, and what leaves the controls alone.
LEMMA BrakesSteer ==
  ASSUME RigInv, SteerInv, BrakeJams \/ BrakeStalls
  PROVE  SteerInv'
<1>0. drive \in DriveBoards(Horizon) /\ "drive" \in Links
  BY DEF RigInv, RigTyped, AroundTyped, Links
<1>1. drive'.steer = drive.steer /\ drive'.quiet = drive.quiet /\ drive'.tripped = drive.tripped
  BY <1>0 DEF BrakeJams, BrakeStalls, Stalled, SwitchBrake, DriveBoards
<1>2. Tame(c, c')
  <2>1. CASE BrakeJams
    BY <2>1, ControlsRigged, TameSelf DEF BrakeJams
  <2>2. CASE BrakeStalls
    <3> DEFINE r == Notice(drive, "brake", "STALL")
    <3>1. c' = Heard(c, "drive", r)
      BY <2>2 DEF BrakeStalls, Answer
    <3> HIDE DEF r
    <3> QED
      BY <1>0, <3>1, ControlsRigged, HeardIsTame
  <2> QED
    BY <2>1, <2>2
<1>3. drive.quiet \in Nat
  BY <1>0, SilenceAssumption DEF DriveBoards
<1>4. c'.hb = c.hb /\ Steady(c', drive.steer, drive.quiet)
  BY <1>2, <1>3 DEF Tame, Steadies, SteerInv
<1> QED
  BY <1>1, <1>4 DEF SteerInv

\* A unit of time: the board's silence grows with the heartbeat's age, and a board that
\* turns past it trips.
LEMMA ElapseSteers ==
  ASSUME RigInv, SteerInv, Elapse
  PROVE  SteerInv'
<1> DEFINE k == ControlsAged(c)
           r == Notice(drive', "trip", "")
<1>0. "drive" \in Links /\ c.wire["drive"] = <<>> /\ drive \in DriveBoards(Horizon)
      /\ drive' = DriveAged(drive, Horizon) /\ {Silence, Heartbeat} \subseteq Nat /\ Typed(c) /\ Sound(c)
  BY ControlsRigged, TimesAssumption, SilenceAssumption DEF Elapse, Links, RigInv, RigTyped, AroundTyped
<1>1. /\ Typed(k) /\ k.wire = c.wire /\ k.up = c.up /\ k.broken = c.broken
      /\ k.hb = (IF c.hb < Horizon THEN c.hb + 1 ELSE c.hb)
  BY <1>0, ControlsAgedDoes
<1>2. k.steer = c.steer
  BY <1>0 DEF ControlsAged, Typed, Fields
<1>3. c' = k \/ c' = Heard(k, "drive", r)
  BY DEF Elapse, Answer
<1> HIDE DEF k, r
<1>4. Tame(k, c')
  BY <1>0, <1>1, <1>3, TypedIsRigged, TameSelf, HeardIsTame
<1>5. /\ drive'.tripped => drive'.steer = "stop"
      /\ drive'.steer = "turn" => /\ drive.steer = "turn"
                                  /\ drive'.quiet <= Silence /\ drive'.quiet = drive.quiet + 1
      /\ drive'.quiet \in Nat
  <2> DEFINE m == Moved(drive)
             q == IF IsMoving(m) THEN Past(m.quiet, Silence) ELSE 0
             o == IF m.brake = "stop" THEN 0 ELSE Past(m.on, Horizon)
             a == [m EXCEPT !.quiet = q, !.on = o]
  <2>1. drive' = IF SilenceTrips(a) THEN AllOff(a) ELSE a
    BY <1>0 DEF DriveAged
  <2>2. m.steer = drive.steer /\ m.quiet = drive.quiet /\ m.tripped = drive.tripped
        /\ DOMAIN m = DOMAIN drive
    BY <1>0 DEF Moved, SwitchBrake, DriveBoards
  <2>3. drive.steer \in {"stop", "turn"} /\ drive.quiet \in Nat /\ drive.tripped \in BOOLEAN
        /\ DOMAIN drive = {"brake", "steer", "on", "at", "stall", "stuck", "quiet", "tripped", "trips"}
    BY <1>0 DEF DriveBoards
  <2> HIDE DEF m
  <2>4. q \in Nat /\ (IsMoving(m) /\ drive.quiet <= Silence => q = drive.quiet + 1)
    BY <1>0, <2>2, <2>3 DEF Past
  <2> HIDE DEF q, o
  <2>5. a.steer = drive.steer /\ a.quiet = q /\ a.tripped = drive.tripped /\ a.brake = m.brake
        /\ DOMAIN a = DOMAIN drive
    BY <2>2, <2>3
  <2> HIDE DEF a
  <2>6. CASE SilenceTrips(a)
    <3>1. drive' = AllOff(a)
      BY <2>1, <2>6
    <3>2. drive'.steer = "stop" /\ drive'.quiet = q
      BY <2>3, <2>5, <3>1 DEF AllOff, SwitchBrake
    <3> QED
      BY <2>4, <3>2
  <2>7. CASE ~SilenceTrips(a)
    <3>1. drive' = a
      BY <2>1, <2>7
    <3>2. drive.tripped => drive.steer = "stop"
      BY DEF SteerInv
    <3>3. ASSUME drive.steer = "turn" PROVE q <= Silence /\ q = drive.quiet + 1
      <4>1. drive.quiet <= Silence /\ ~drive.tripped
        BY <3>2, <3>3 DEF SteerInv
      <4>2. IsMoving(a) /\ IsMoving(m)
        BY <2>2, <2>5, <3>3 DEF IsMoving
      <4>3. ~(q > Silence)
        BY <2>5, <2>7, <4>1, <4>2 DEF SilenceTrips
      <4> QED
        BY <1>0, <2>4, <4>1, <4>2, <4>3
    <3> QED
      BY <2>4, <2>5, <3>1, <3>2, <3>3
  <2> QED
    BY <2>6, <2>7
<1>6. drive'.steer = "turn" => (c.steer = "turn" \/ "drive" \in c.broken) /\ k.hb <= Heartbeat + drive'.quiet
  <2> HAVE drive'.steer = "turn"
  <2>1. Turns(c.wire["drive"], drive.steer)
    BY <1>0, <1>5 DEF Turns
  <2>2. (c.steer = "turn" \/ "drive" \in c.broken) /\ c.hb <= Heartbeat + drive.quiet
    BY <2>1 DEF SteerInv, Steady
  <2>3. c.hb \in Nat /\ drive.quiet \in Nat /\ k.hb <= c.hb + 1 /\ k.hb \in Nat
    BY <1>0, <1>1, TypedIsRigged, SilenceAssumption DEF Rigged, DriveBoards
  <2> QED
    BY <1>0, <1>5, <2>2, <2>3
<1>7. Steady(k, drive'.steer, drive'.quiet)
  <2>1. k.wire["drive"] = <<>> /\ DOMAIN k.wire["drive"] = {}
    BY <1>0, <1>1
  <2>2. Turns(k.wire["drive"], drive'.steer) => drive'.steer = "turn"
    BY <2>1 DEF Turns
  <2>3. ~k.up["drive"] => "drive" \in k.broken
    BY <1>1 DEF SteerInv, Steady
  <2> QED
    BY <1>1, <1>2, <1>6, <2>1, <2>2, <2>3 DEF Steady
<1>8. c'.hb = k.hb /\ Steady(c', drive'.steer, drive'.quiet)
  BY <1>4, <1>5, <1>7 DEF Tame, Steadies
<1>9. drive'.steer = "turn" => drive'.quiet <= Silence /\ c'.hb <= Heartbeat + Silence
  <2>1. k.hb \in Nat /\ drive'.quiet \in Nat
    BY <1>1, <1>5, TypedIsRigged DEF Rigged
  <2> QED
    BY <1>0, <1>5, <1>6, <1>8, <2>1
<1> QED
  BY <1>5, <1>8, <1>9 DEF SteerInv

LEMMA NextSteers ==
  ASSUME RigInv, SteerInv, "frame lost" \notin Mishaps, [Next]_vars
  PROVE  SteerInv'
<1>1. CASE Next
  <2>1. ASSUME NEW cmd \in Commands, Command(cmd) PROVE SteerInv'
    BY <2>1, CommandSteers
  <2>2. CASE CallGoesOn
    BY <2>2, CallGoesOnSteers
  <2>3. CASE EstopHeld \/ BridgeStops \/ Resume \/ HumanClears \/ TickRuns
    BY <2>3, CallsSteer
  <2>4. ASSUME NEW l \in Links, Read(l) \/ ReaderEnds(l) \/ FrameLost(l) \/ LineLost(l) \/ PortBreaks(l)
        PROVE  SteerInv'
    <3>1. ~FrameLost(l)
      BY DEF FrameLost, Befalls
    <3> QED
      BY <2>4, <3>1, ReadersSteer, TakingsSteer, PortBreaksSteers
  <2>5. CASE ThrottleBoardTakes \/ DriveBoardTakes \/ SignalFails
    BY <2>5, TakingsSteer
  <2>6. CASE BrakeJams \/ BrakeStalls
    BY <2>6, BrakesSteer
  <2>7. CASE (\E who \in Links \cup {"bridge"} : Slows(who)) \/ TickThreadHangs
    BY <2>7 DEF Slows, TickThreadHangs, SteerInv
  <2>8. CASE Elapse
    BY <2>8, ElapseSteers
  <2> QED
    BY <1>1, <2>1, <2>2, <2>3, <2>4, <2>5, <2>6, <2>7, <2>8 DEF Next
<1>2. CASE UNCHANGED vars
  BY <1>2 DEF vars, SteerInv
<1> QED
  BY <1>1, <1>2

LEMMA InitSteers ==
  ASSUME Init
  PROVE  SteerInv
<1> PICK place \in Places, g \in Gears :
           c = NewControls(place, g) /\ drive = NewDriveBoard(place)
  BY DEF Init
<1>1. drive.tripped = FALSE /\ drive.steer = "stop" /\ drive.quiet = 0
  BY DEF NewDriveBoard
<1>2. "drive" \in Links /\ c.up["drive"] /\ c.wire["drive"] = <<>> /\ DOMAIN c.wire["drive"] = {}
  BY DEF NewControls, Links
<1>3. ~Turns(c.wire["drive"], drive.steer)
  BY <1>1, <1>2 DEF Turns
<1> QED
  BY <1>1, <1>2, <1>3 DEF SteerInv, Steady

LEMMA SteerInvRests == RigInv /\ SteerInv => SteeringRests
<1> SUFFICES ASSUME RigInv, SteerInv, drive.steer # "stop" PROVE c.hb <= Heartbeat + Stroke + Silence
  BY DEF SteeringRests
<1>1. drive.steer = "turn" /\ c.hb \in Nat /\ {Heartbeat, Stroke, Silence} \subseteq Nat
  BY ControlsRigged, TimesAssumption, SilenceAssumption
     DEF RigInv, RigTyped, AroundTyped, DriveBoards, Rigged
<1>2. c.hb <= Heartbeat + Silence
  BY <1>1, Zenon DEF SteerInv
<1>3. Heartbeat \in Nat /\ Stroke \in Nat /\ Silence \in Nat
  BY <1>1
<1> QED
  BY <1>1, <1>2, <1>3

------------------------------------------------------------------------------
(* The brake's moves, over links that lose no frame.                          *)

Halt == Frame("brake", "stop")
Moves == {Frame("brake", "apply"), Frame("brake", "release")}

\* A brake that does b may be moving when its board has taken all of w.
MovesOn(w, b) ==
    \/ b # "stop" /\ \A i \in DOMAIN w : w[i] # Halt
    \/ \E i \in DOMAIN w : w[i] \in Moves /\ \A j \in DOMAIN w : j > i => w[j] # Halt

Unbraked(w) == \A i \in DOMAIN w : w[i].cmd # "brake"

\* The controls know of every move of the brake (b) for as long as they can write, and
\* have measured it for no less than it goes on (o).
Braced(k, b, o) ==
    LET w == k.wire["drive"]
    IN  /\ ~k.up["drive"] => "drive" \in k.broken
        /\ k.moving => k.moveDir # "none"
        /\ MovesOn(w, b) => k.moving \/ "drive" \in k.broken
        /\ b # "stop" /\ Unbraked(w) => o <= k.moveAge \/ "drive" \in k.broken

\* No move is left that has had its stroke: what a tick sees to.
Prompt(k) == k.moving => k.moveAge <= Stroke

\* d comes from k by a step that is braced wherever k was.
Braces(k, d) ==
    /\ Rigged(d) /\ d.broken = k.broken /\ d.ticked = k.ticked
    /\ "drive" \in k.broken => d.wire["drive"] = k.wire["drive"]
    /\ Prompt(k) => Prompt(d)
    /\ \A b, o : o \in Nat /\ Braced(k, b, o) => Braced(d, b, o)

LEMMA BracesTwice ==
  ASSUME NEW a, NEW b, NEW d, Braces(a, b), Braces(b, d)
  PROVE  Braces(a, d)
BY DEF Braces

LEMMA BracesSelf ==
  ASSUME NEW k, Rigged(k)
  PROVE  Braces(k, k)
BY DEF Braces

\* What the argument looks at.
Watched == {"up", "broken", "wire", "ticked", "moving", "moveDir", "moveAge"}

\* The wire as it was, and every move measured as before.
LEMMA StillBraces ==
  ASSUME NEW k, Rigged(k), NEW d, Rigged(d), d.broken = k.broken, d.ticked = k.ticked,
         d.wire["drive"] = k.wire["drive"],
         d.up["drive"] = k.up["drive"] \/ "drive" \in k.broken,
         d.moving = k.moving, k.moving => d.moveDir = k.moveDir /\ d.moveAge = k.moveAge
  PROVE  Braces(k, d)
<1>1. Prompt(k) => Prompt(d)
  BY DEF Prompt
<1>2. ASSUME NEW b, NEW o \in Nat, Braced(k, b, o) PROVE Braced(d, b, o)
  <2>1. b # "stop" /\ Unbraked(k.wire["drive"]) => MovesOn(k.wire["drive"], b)
    BY DEF Unbraked, MovesOn, Halt, Frame
  <2> QED
    BY <1>2, <2>1 DEF Braced
<1> QED
  BY <1>1, <1>2 DEF Braces

LEMMA TouchBraces ==
  ASSUME NEW k, Rigged(k), NEW X, X \cap Watched = {}, "hb" \notin X, NEW d, Same(k, d, X)
  PROVE  /\ Braces(k, d) /\ Rigged(d) /\ d.wire = k.wire /\ d.up = k.up /\ d.broken = k.broken
         /\ d.ticked = k.ticked /\ d.moving = k.moving /\ d.moveDir = k.moveDir /\ d.moveAge = k.moveAge
<1>1. /\ d.wire = k.wire /\ d.up = k.up /\ d.broken = k.broken /\ d.ticked = k.ticked
      /\ d.moving = k.moving /\ d.moveDir = k.moveDir /\ d.moveAge = k.moveAge /\ d.hb = k.hb
  BY DEF Same, Watched, Fields
<1>2. Rigged(d)
  BY <1>1 DEF Rigged, Same
<1>3. Braces(k, d)
  BY <1>1, <1>2, StillBraces
<1> QED
  BY <1>1, <1>2, <1>3

\* A frame that is not the brake's.
LEMMA OthersMoveNothing ==
  ASSUME NEW v \in Seq(DriveFrames), NEW f, f.cmd # "brake", NEW b
  PROVE  /\ MovesOn(Append(v, f), b) => MovesOn(v, b)
         /\ Unbraked(Append(v, f)) => Unbraked(v)
<1> DEFINE w == Append(v, f)
           n == Len(v) + 1
<1>1. /\ DOMAIN v = 1 .. Len(v) /\ Len(v) \in Nat /\ DOMAIN w = 1 .. n /\ w[n] = f
      /\ \A i \in DOMAIN v : i \in DOMAIN w /\ w[i] = v[i]
      /\ \A i \in DOMAIN w : i \in DOMAIN v \/ i = n
  BY Appended
<1> HIDE DEF w
<1>2. Unbraked(w) => Unbraked(v)
  BY <1>1 DEF Unbraked
<1>3. MovesOn(w, b) => MovesOn(v, b)
  <2>1. CASE b # "stop" /\ \A i \in DOMAIN w : w[i] # Halt
    BY <1>1, <2>1 DEF MovesOn
  <2>2. CASE \E i \in DOMAIN w : w[i] \in Moves /\ \A j \in DOMAIN w : j > i => w[j] # Halt
    <3>1. PICK i \in DOMAIN w : w[i] \in Moves /\ \A j \in DOMAIN w : j > i => w[j] # Halt
      BY <2>2
    <3>2. i # n
      BY <1>1, <3>1 DEF Moves, Frame
    <3>3. i \in DOMAIN v /\ v[i] \in Moves /\ \A j \in DOMAIN v : j > i => v[j] # Halt
      BY <1>1, <3>1, <3>2
    <3> QED
      BY <3>3 DEF MovesOn
  <2> QED
    BY <2>1, <2>2 DEF MovesOn
<1> QED
  BY <1>2, <1>3 DEF w

\* A halt is what the wire ends in.
LEMMA HaltEnds ==
  ASSUME NEW u \in Seq(DriveFrames), NEW b
  PROVE  ~MovesOn(Append(u, Halt), b) /\ ~Unbraked(Append(u, Halt))
<1> DEFINE w == Append(u, Halt)
           n == Len(u) + 1
<1>1. n \in DOMAIN w /\ w[n] = Halt /\ \A i \in DOMAIN w : i \in Int /\ i <= n
  BY Appended
<1>2. Halt \notin Moves /\ Halt.cmd = "brake"
  BY DEF Moves, Halt, Frame
<1> HIDE DEF w, n
<1>3. ~MovesOn(w, b)
  <2>1. ~(b # "stop" /\ \A i \in DOMAIN w : w[i] # Halt)
    BY <1>1
  <2>2. ASSUME NEW i \in DOMAIN w, w[i] \in Moves, \A j \in DOMAIN w : j > i => w[j] # Halt
        PROVE  FALSE
    <3>1. n # i /\ i <= n /\ n \in Int /\ i \in Int
      BY <1>1, <1>2, <2>2
    <3>2. n > i
      BY <3>1
    <3> QED
      BY <1>1, <2>2, <3>2
  <2> QED
    BY <2>1, <2>2 DEF MovesOn
<1>4. ~Unbraked(w)
  BY <1>1, <1>2 DEF Unbraked
<1> QED
  BY <1>3, <1>4 DEF w

\* f went out on the drive module's link, or there was nothing to write to; what else
\* of the controls' record changed is for the caller to say.
Out(k, d, f) ==
    /\ Rigged(d) /\ d.broken = k.broken /\ d.ticked = k.ticked
    /\ IF Goes(k, "drive")
       THEN d.wire["drive"] = Append(k.wire["drive"], f) /\ d.up["drive"] = k.up["drive"]
       ELSE d.wire["drive"] = k.wire["drive"]

LEMMA OtherFrameBraces ==
  ASSUME NEW k, Rigged(k), NEW f, f.cmd # "brake", NEW d, Out(k, d, f),
         d.moving = k.moving, d.moveDir = k.moveDir, d.moveAge = k.moveAge
  PROVE  Braces(k, d)
<1>1. k.wire["drive"] \in Seq(DriveFrames)
  BY DEF Rigged
<1>2. Prompt(k) => Prompt(d)
  BY DEF Prompt
<1>3. "drive" \in k.broken => d.wire["drive"] = k.wire["drive"]
  BY DEF Out, Goes
<1>4. ASSUME NEW b, NEW o \in Nat, Braced(k, b, o) PROVE Braced(d, b, o)
  <2>1. CASE Goes(k, "drive")
    <3> DEFINE v == k.wire["drive"]
               w == d.wire["drive"]
    <3>1. w = Append(v, f) /\ d.up["drive"]
      BY <2>1 DEF Out, Goes
    <3>2. (MovesOn(w, b) => MovesOn(v, b)) /\ (Unbraked(w) => Unbraked(v))
      BY <1>1, <3>1, OthersMoveNothing
    <3> HIDE DEF v, w
    <3> QED
      BY <1>4, <3>1, <3>2 DEF Braced, Out, v, w
  <2>2. CASE ~Goes(k, "drive")
    <3>1. "drive" \in k.broken
      BY <1>4, <2>2 DEF Braced, Goes
    <3> QED
      BY <1>4, <2>2, <3>1 DEF Braced, Out
  <2> QED
    BY <2>1, <2>2
<1> QED
  BY <1>2, <1>3, <1>4 DEF Braces, Out

\* The brake is halted, and known to be.
LEMMA HaltBraces ==
  ASSUME NEW k, Rigged(k), NEW d, Out(k, d, Halt), d.moving = FALSE
  PROVE  Braces(k, d) /\ Prompt(d)
<1>1. k.wire["drive"] \in Seq(DriveFrames)
  BY DEF Rigged
<1>2. Prompt(d)
  BY DEF Prompt
<1>3. "drive" \in k.broken => d.wire["drive"] = k.wire["drive"]
  BY DEF Out, Goes
<1>4. ASSUME NEW b, NEW o \in Nat, Braced(k, b, o) PROVE Braced(d, b, o)
  <2>1. CASE Goes(k, "drive")
    <3>1. d.wire["drive"] = Append(k.wire["drive"], Halt) /\ d.up["drive"]
      BY <2>1 DEF Out, Goes
    <3>2. ~MovesOn(d.wire["drive"], b) /\ ~Unbraked(d.wire["drive"])
      BY <1>1, <3>1, HaltEnds
    <3> QED
      BY <3>1, <3>2 DEF Braced
  <2>2. CASE ~Goes(k, "drive")
    <3>1. "drive" \in k.broken
      BY <1>4, <2>2 DEF Braced, Goes
    <3> QED
      BY <3>1 DEF Braced, Out
  <2> QED
    BY <2>1, <2>2
<1> QED
  BY <1>2, <1>3, <1>4 DEF Braces, Out

\* The brake is told to move, and its move measured from now.
LEMMA MoveBraces ==
  ASSUME NEW k, Rigged(k), NEW f \in Moves, NEW d, Out(k, d, f),
         d.moving = TRUE, d.moveDir # "none", d.moveAge = 0
  PROVE  Braces(k, d)
<1>1. k.wire["drive"] \in Seq(DriveFrames)
  BY DEF Rigged
<1>2. Prompt(d)
  BY TimesAssumption DEF Prompt
<1>3. "drive" \in k.broken => d.wire["drive"] = k.wire["drive"]
  BY DEF Out, Goes
<1>4. ASSUME NEW b, NEW o \in Nat, Braced(k, b, o) PROVE Braced(d, b, o)
  <2>1. CASE Goes(k, "drive")
    <3>1. d.wire["drive"] = Append(k.wire["drive"], f) /\ d.up["drive"]
      BY <2>1 DEF Out, Goes
    <3>2. ~Unbraked(d.wire["drive"])
      BY <1>1, <3>1, Appended DEF Unbraked, Moves, Frame
    <3> QED
      BY <3>1, <3>2 DEF Braced
  <2>2. CASE ~Goes(k, "drive")
    <3>1. "drive" \in k.broken
      BY <1>4, <2>2 DEF Braced, Goes
    <3> QED
      BY <3>1 DEF Braced, Out
  <2> QED
    BY <2>1, <2>2
<1> QED
  BY <1>2, <1>3, <1>4 DEF Braces, Out

------------------------------------------------------------------------------
(* The controls' own methods, and the brake.                                  *)

LEMMA WriteInStopKeeps ==
  ASSUME NEW k, Rigged(k), NEW l \in Links, NEW cmd, NEW arg, NEW marks
  PROVE  Same(k, WriteInStop(k, l, cmd, arg, marks), {"wire", "pending", "up", "faulted"})
BY DEF WriteInStop, Same, Rigged, Fields

\* What the throttle board's link is used for leaves the brake alone.
Apart(k, d) ==
    /\ Aside(k, d) /\ d.ticked = k.ticked
    /\ d.moving = k.moving /\ d.moveDir = k.moveDir /\ d.moveAge = k.moveAge

LEMMA ApartBraces ==
  ASSUME NEW k, Rigged(k), NEW d, Apart(k, d)
  PROVE  Braces(k, d)
BY StillBraces DEF Apart, Aside

LEMMA UnmarkedApart ==
  ASSUME NEW k, Rigged(k), NEW mark
  PROVE  Apart(k, Unmarked(k, mark)) /\ Rigged(Unmarked(k, mark))
<1> DEFINE d == Unmarked(k, mark)
<1>1. Same(k, d, {"pending"})
  BY DEF Unmarked, Same, Rigged
<1>2. Aside(k, d)
  BY UnmarkedIsTame
<1> HIDE DEF d
<1>3. d.ticked = k.ticked /\ d.moving = k.moving /\ d.moveDir = k.moveDir /\ d.moveAge = k.moveAge
  BY <1>1 DEF Same, Fields
<1>4. Apart(k, d) /\ Rigged(d)
  BY <1>2, <1>3 DEF Apart, Aside
<1> QED
  BY <1>4 DEF d

LEMMA DutyInStopApart ==
  ASSUME NEW k, Rigged(k), NEW duty, NEW marks
  PROVE  Apart(k, DutyInStop(k, duty, marks))
<1> DEFINE u == Unmarked(k, "latest")
           w == WriteInStop(u, "accel", "duty", duty, marks \cup {"latest"})
           d == [w EXCEPT !.latestAcked = FALSE]
           e == WriteInStop(k, "accel", "duty", duty, marks)
<1>0. "accel" \in Links
  BY DEF Links
<1>1. Apart(k, u) /\ Rigged(u)
  BY UnmarkedApart
<1> HIDE DEF u
<1>2. Same(u, w, {"wire", "pending", "up", "faulted"}) /\ Same(k, e, {"wire", "pending", "up", "faulted"})
  BY <1>0, <1>1, WriteInStopKeeps
<1>3. DutyInStop(k, duty, marks) = IF Goes(k, "accel") THEN d ELSE e
  BY DEF DutyInStop, u
<1> HIDE DEF w, e
<1>4. Same(w, d, {"latestAcked"})
  BY <1>2 DEF Same
<1> HIDE DEF d
<1>5. /\ w.ticked = u.ticked /\ w.moving = u.moving /\ w.moveDir = u.moveDir /\ w.moveAge = u.moveAge
      /\ e.ticked = k.ticked /\ e.moving = k.moving /\ e.moveDir = k.moveDir /\ e.moveAge = k.moveAge
      /\ d.ticked = w.ticked /\ d.moving = w.moving /\ d.moveDir = w.moveDir /\ d.moveAge = w.moveAge
  BY <1>2, <1>4 DEF Same, Fields
<1>6. Aside(k, DutyInStop(k, duty, marks))
  BY DutyInStopAside
<1> QED
  BY <1>1, <1>3, <1>5, <1>6 DEF Apart

\* Written to the drive module, from a record (a) that differs from k in nothing of its
\* link's.
LEMMA DriveWriteOut ==
  ASSUME NEW k, Rigged(k), NEW a, Rigged(a), a.broken = k.broken, a.ticked = k.ticked,
         a.wire["drive"] = k.wire["drive"], a.up["drive"] = k.up["drive"],
         NEW cmd, NEW arg, NEW marks, Frame(cmd, arg) \in DriveFrames
  PROVE  LET d == WriteInStop(a, "drive", cmd, arg, marks)
         IN  /\ Out(k, d, Frame(cmd, arg))
             /\ d.moving = a.moving /\ d.moveDir = a.moveDir /\ d.moveAge = a.moveAge
<1> DEFINE d == WriteInStop(a, "drive", cmd, arg, marks)
           f == Frame(cmd, arg)
<1>0. "drive" \in Links /\ "drive" # "accel"
  BY DEF Links
<1>1. Sent(a, d, f)
  BY <1>0, WriteInStopSends
<1>2. Same(a, d, {"wire", "pending", "up", "faulted"})
  BY <1>0, WriteInStopKeeps
<1> HIDE DEF d, f
<1>3. d.ticked = a.ticked /\ d.moving = a.moving /\ d.moveDir = a.moveDir /\ d.moveAge = a.moveAge
  BY <1>2 DEF Same, Fields
<1>4. Goes(a, "drive") <=> Goes(k, "drive")
  BY DEF Goes
<1>5. Out(k, d, f)
  BY <1>1, <1>3, <1>4 DEF Out, Sent
<1> QED
  BY <1>3, <1>5 DEF d, f

\* A stop halts the brake, starts it, or lets the stroke it started run.
LEMMA SafeStopBraces ==
  ASSUME NEW k, Rigged(k), NEW brake
  PROVE  Braces(k, SafeStop(k, brake))
<1> DEFINE u == Unmarked(k, "stop")
           m == Unmarked(u, "release")
           reset == [m EXCEPT !.stopped = TRUE, !.steer = "stop", !.duty = "zero"]
           rest == DutyInStop(reset, "zero", {"stop"})
           onset == [rest EXCEPT !.applied = TRUE, !.moving = TRUE,
                                 !.stopApply = 0, !.moveDir = "apply", !.moveAge = 0]
           still == [rest EXCEPT !.moving = FALSE]
           applies == WriteInStop(onset, "drive", "brake", "apply", {"stop"})
           halts == WriteInStop(still, "drive", "brake", "stop", {"stop"})
           braked == IF AppliesBrake(rest, brake) THEN applies
                     ELSE IF LetsStrokeRun(rest, brake) THEN rest ELSE halts
           ended == WriteInStop(braked, "drive", "steer", "stop", {"stop"})
           d == [ended EXCEPT !.whole = AllGo(k)]
<1>1. SafeStop(k, brake) = d
  BY DEF SafeStop
<1>0. /\ Frame("brake", "apply") \in DriveFrames /\ Halt \in DriveFrames /\ Frame("steer", "stop") \in DriveFrames
      /\ Frame("brake", "apply") \in Moves /\ Frame("steer", "stop").cmd # "brake"
  BY FramesFit DEF FramesOf, Halt, Moves, Frame
<1>2. Braces(k, m) /\ Rigged(m)
  BY UnmarkedApart, ApartBraces, BracesTwice
<1> HIDE DEF u, m
<1>3. Same(m, reset, {"stopped", "steer", "duty"}) /\ {"stopped", "steer", "duty"} \cap Watched = {}
      /\ "hb" \notin {"stopped", "steer", "duty"}
  BY <1>2 DEF Same, Rigged, Watched
<1> HIDE DEF reset
<1>4. Braces(m, reset) /\ Rigged(reset)
  BY <1>2, <1>3, TouchBraces
<1>5. Braces(reset, rest) /\ Rigged(rest)
  BY <1>4, DutyInStopApart, ApartBraces DEF Apart, Aside
<1> HIDE DEF rest
<1>6. Braces(k, rest)
  BY <1>2, <1>4, <1>5, BracesTwice
<1>7. /\ onset.wire = rest.wire /\ onset.up = rest.up /\ onset.broken = rest.broken /\ onset.ticked = rest.ticked
      /\ onset.hb = rest.hb /\ DOMAIN onset = Fields
      /\ onset.moving = TRUE /\ onset.moveDir = "apply" /\ onset.moveAge = 0
  BY <1>5 DEF Rigged, Fields
<1>8. /\ still.wire = rest.wire /\ still.up = rest.up /\ still.broken = rest.broken /\ still.ticked = rest.ticked
      /\ still.hb = rest.hb /\ DOMAIN still = Fields /\ still.moving = FALSE
  BY <1>5 DEF Rigged, Fields
<1> HIDE DEF onset, still
<1>9. Rigged(onset) /\ Rigged(still)
  BY <1>5, <1>7, <1>8 DEF Rigged
<1>10. Braces(rest, applies)
  <2>1. Out(rest, applies, Frame("brake", "apply")) /\ applies.moving = TRUE
        /\ applies.moveDir = "apply" /\ applies.moveAge = 0
    BY <1>0, <1>5, <1>7, <1>9, DriveWriteOut
  <2> HIDE DEF applies
  <2> QED
    BY <1>0, <1>5, <2>1, MoveBraces
<1>11. Braces(rest, halts)
  <2>1. Out(rest, halts, Halt) /\ halts.moving = FALSE
    BY <1>0, <1>5, <1>8, <1>9, DriveWriteOut DEF Halt
  <2> HIDE DEF halts
  <2> QED
    BY <1>5, <2>1, HaltBraces
<1> HIDE DEF applies, halts
<1>12. Braces(rest, braked) /\ Rigged(braked)
  <2>1. braked \in {applies, rest, halts}
    OBVIOUS
  <2> HIDE DEF braked
  <2> QED
    BY <1>5, <1>10, <1>11, <2>1, BracesSelf DEF Braces
<1> HIDE DEF braked
<1>13. Braces(braked, ended) /\ Rigged(ended)
  <2>1. Out(braked, ended, Frame("steer", "stop")) /\ ended.moving = braked.moving
        /\ ended.moveDir = braked.moveDir /\ ended.moveAge = braked.moveAge
    BY <1>0, <1>12, DriveWriteOut
  <2> HIDE DEF ended
  <2>2. Braces(braked, ended)
    BY <1>0, <1>12, <2>1, OtherFrameBraces
  <2> QED
    BY <2>2 DEF Braces
<1> HIDE DEF ended
<1>14. Same(ended, d, {"whole"}) /\ {"whole"} \cap Watched = {} /\ "hb" \notin {"whole"}
  BY <1>13 DEF Same, Rigged, Watched
<1> HIDE DEF d
<1>15. Braces(ended, d)
  BY <1>13, <1>14, TouchBraces
<1>16. Braces(k, d)
  BY <1>6, <1>12, <1>13, <1>15, BracesTwice
<1> QED
  BY <1>1, <1>16

LEMMA FaultBraces ==
  ASSUME NEW k, Rigged(k), NEW brake
  PROVE  Braces(k, Fault(k, brake))
<1> DEFINE u == [k EXCEPT !.faulted = TRUE, !.boardTripped = @ \/ ~brake]
<1>1. Same(k, u, {"faulted", "boardTripped"}) /\ {"faulted", "boardTripped"} \cap Watched = {}
      /\ "hb" \notin {"faulted", "boardTripped"}
  BY DEF Same, Rigged, Watched
<1> HIDE DEF u
<1>2. Braces(k, u) /\ Rigged(u)
  BY <1>1, TouchBraces
<1>3. Braces(u, SafeStop(u, brake))
  BY <1>2, SafeStopBraces
<1>4. Braces(k, SafeStop(u, brake))
  BY <1>2, <1>3, BracesTwice
<1> QED
  BY <1>4 DEF Fault, u

\* _write(), where what it writes and what the caller noted before are braced.
LEMMA WriteBraces ==
  ASSUME NEW k, NEW a, NEW l, NEW cmd, NEW arg, NEW marks, Braces(k, WriteInStop(a, l, cmd, arg, marks))
  PROVE  /\ Braces(k, Write(a, l, cmd, arg, marks))
         /\ Prompt(WriteInStop(a, l, cmd, arg, marks)) => Prompt(Write(a, l, cmd, arg, marks))
<1> DEFINE w == WriteInStop(a, l, cmd, arg, marks)
<1> HIDE DEF w
<1>1. Braces(k, w) /\ Rigged(w)
  BY DEF w, Braces
<1>2. Braces(w, SafeStop(w, TRUE))
  BY <1>1, SafeStopBraces
<1>3. Braces(k, SafeStop(w, TRUE)) /\ (Prompt(w) => Prompt(SafeStop(w, TRUE)))
  BY <1>1, <1>2, BracesTwice DEF Braces
<1> QED
  BY <1>1, <1>3 DEF Write, w

\* Any frame that is not the brake's.
LEMMA OtherWriteBraces ==
  ASSUME NEW k, Rigged(k), NEW l \in Links, NEW cmd, NEW arg, NEW marks,
         l = "drive" => Frame(cmd, arg) \in DriveFrames /\ cmd # "brake"
  PROVE  Braces(k, Write(k, l, cmd, arg, marks))
<1> DEFINE w == WriteInStop(k, l, cmd, arg, marks)
<1>1. CASE l = "drive"
  <2>1. Out(k, w, Frame(cmd, arg)) /\ w.moving = k.moving /\ w.moveDir = k.moveDir /\ w.moveAge = k.moveAge
    BY <1>1, DriveWriteOut
  <2>2. Frame(cmd, arg).cmd # "brake"
    BY <1>1 DEF Frame
  <2> HIDE DEF w
  <2>3. Braces(k, w)
    BY <2>1, <2>2, OtherFrameBraces
  <2> QED
    BY <2>3, WriteBraces DEF w
<1>2. CASE l = "accel"
  <2>1. /\ Same(k, w, {"wire", "pending", "up", "faulted"})
        /\ w.wire["drive"] = k.wire["drive"] /\ w.up["drive"] = k.up["drive"]
        /\ DOMAIN w.wire = Links /\ DOMAIN w.up = Links
    BY <1>2, WriteInStopSends
  <2> HIDE DEF w
  <2>2. /\ w.hb = k.hb /\ w.broken = k.broken /\ w.steer = k.steer /\ w.ticked = k.ticked
        /\ w.moving = k.moving /\ w.moveDir = k.moveDir /\ w.moveAge = k.moveAge
    BY <2>1 DEF Same, Fields
  <2>3. Rigged(w)
    BY <2>1, <2>2 DEF Rigged, Same
  <2>4. Braces(k, w)
    BY <2>1, <2>2, <2>3, StillBraces
  <2> QED
    BY <2>4, WriteBraces DEF w
<1> QED
  BY <1>1, <1>2 DEF Links

\* The brake halted or moved, from a record (a) in which the caller noted as much.
LEMMA BrakeWriteBraces ==
  ASSUME NEW k, Rigged(k), NEW X, X \cap {"up", "broken", "wire", "ticked", "hb"} = {}, NEW a, Same(k, a, X),
         NEW arg \in {"stop", "apply", "release"}, NEW marks,
         IF arg = "stop" THEN a.moving = FALSE ELSE a.moving = TRUE /\ a.moveDir # "none" /\ a.moveAge = 0
  PROVE  /\ Braces(k, Write(a, "drive", "brake", arg, marks))
         /\ arg = "stop" => Prompt(Write(a, "drive", "brake", arg, marks))
<1> DEFINE f == Frame("brake", arg)
           w == WriteInStop(a, "drive", "brake", arg, marks)
<1>1. a.wire = k.wire /\ a.up = k.up /\ a.broken = k.broken /\ a.ticked = k.ticked /\ a.hb = k.hb /\ DOMAIN a = Fields
  BY DEF Same, Fields
<1>2. Rigged(a)
  BY <1>1 DEF Rigged
<1>3. f \in DriveFrames /\ (arg # "stop" => f \in Moves) /\ (arg = "stop" => f = Halt)
  BY FramesFit DEF FramesOf, Moves, Halt
<1>4. Out(k, w, f) /\ w.moving = a.moving /\ w.moveDir = a.moveDir /\ w.moveAge = a.moveAge
  BY <1>1, <1>2, <1>3, DriveWriteOut
<1> HIDE DEF f, w
<1>5. CASE arg = "stop"
  <2>1. Braces(k, w) /\ Prompt(w)
    BY <1>3, <1>4, <1>5, HaltBraces
  <2> QED
    BY <2>1, WriteBraces DEF w
<1>6. CASE arg # "stop"
  <2>1. Braces(k, w)
    BY <1>3, <1>4, <1>6, MoveBraces
  <2> QED
    BY <1>6, <2>1, WriteBraces DEF w
<1> QED
  BY <1>5, <1>6

LEMMA WriteDutyBraces ==
  ASSUME NEW k, Rigged(k), NEW duty
  PROVE  Braces(k, WriteDuty(k, duty))
<1> DEFINE w == DutyInStop(k, duty, {})
<1>1. Braces(k, w) /\ Rigged(w)
  BY DutyInStopApart, ApartBraces DEF Apart, Aside
<1> HIDE DEF w
<1>2. Braces(w, SafeStop(w, TRUE))
  BY <1>1, SafeStopBraces
<1>3. Braces(k, SafeStop(w, TRUE))
  BY <1>1, <1>2, BracesTwice
<1> QED
  BY <1>1, <1>3 DEF WriteDuty, w

LEMMA SetThrottleBraces ==
  ASSUME NEW k, Rigged(k), NEW duty
  PROVE  Braces(k, SetThrottle(k, duty))
<1> DEFINE u == [k EXCEPT !.duty = duty]
<1>1. Same(k, u, {"duty"}) /\ {"duty"} \cap Watched = {} /\ "hb" \notin {"duty"}
  BY DEF Same, Rigged, Watched
<1> HIDE DEF u
<1>2. Braces(k, u) /\ Rigged(u)
  BY <1>1, TouchBraces
<1>3. Braces(k, WriteDuty(u, duty))
  BY <1>2, WriteDutyBraces, BracesTwice
<1> QED
  BY <1>3 DEF SetThrottle, u

LEMMA ApplyBrakeBraces ==
  ASSUME NEW k, Rigged(k)
  PROVE  Braces(k, ApplyBrake(k))
<1> DEFINE u == Unmarked(k, "release")
           v == [u EXCEPT !.applied = TRUE, !.duty = "zero"]
           w == WriteDuty(v, "zero")
           x == [w EXCEPT !.moving = TRUE, !.moveDir = "apply", !.moveAge = 0]
           X == {"moving", "moveDir", "moveAge"}
           d == Write(x, "drive", "brake", "apply", {})
<1>1. d = ApplyBrake(k)
  BY DEF ApplyBrake
<1>2. Braces(k, u) /\ Rigged(u)
  BY UnmarkedApart, ApartBraces
<1> HIDE DEF u
<1>3. Same(u, v, {"applied", "duty"}) /\ {"applied", "duty"} \cap Watched = {} /\ "hb" \notin {"applied", "duty"}
  BY <1>2 DEF Same, Rigged, Watched
<1> HIDE DEF v
<1>4. Braces(k, v) /\ Rigged(v)
  BY <1>2, <1>3, TouchBraces, BracesTwice
<1>5. Braces(k, w) /\ Rigged(w)
  <2>1. Braces(v, w)
    BY <1>4, WriteDutyBraces
  <2> HIDE DEF w
  <2> QED
    BY <1>4, <2>1, BracesTwice DEF Braces
<1> HIDE DEF w
<1>6. Same(w, x, X) /\ x.moving = TRUE /\ x.moveDir # "none" /\ x.moveAge = 0
  BY <1>5 DEF Same, Rigged, Fields
<1>7. X \cap {"up", "broken", "wire", "ticked", "hb"} = {}
  OBVIOUS
<1> HIDE DEF x, X
<1>8. Braces(w, d)
  BY <1>5, <1>6, <1>7, BrakeWriteBraces
<1>9. Braces(k, d)
  BY <1>5, <1>8, BracesTwice
<1> QED
  BY <1>1, <1>9

LEMMA ReleaseBrakeBraces ==
  ASSUME NEW k, Rigged(k)
  PROVE  Braces(k, ReleaseBrake(k))
<1> DEFINE u == Unmarked(k, "release")
           x == [u EXCEPT !.moving = TRUE, !.moveDir = "release", !.moveAge = 0]
           X == {"moving", "moveDir", "moveAge"}
           d == Write(x, "drive", "brake", "release", {"release"})
<1>1. d = ReleaseBrake(k)
  BY DEF ReleaseBrake
<1>2. Braces(k, u) /\ Rigged(u)
  BY UnmarkedApart, ApartBraces
<1> HIDE DEF u
<1>3. Same(u, x, X) /\ x.moving = TRUE /\ x.moveDir # "none" /\ x.moveAge = 0
  BY <1>2 DEF Same, Rigged, Fields
<1>4. X \cap {"up", "broken", "wire", "ticked", "hb"} = {}
  OBVIOUS
<1> HIDE DEF x, X
<1>5. Braces(u, d)
  BY <1>2, <1>3, <1>4, BrakeWriteBraces
<1>6. Braces(k, d)
  BY <1>2, <1>5, BracesTwice
<1> QED
  BY <1>1, <1>6

LEMMA GearBraces ==
  ASSUME NEW k, Rigged(k), NEW g \in {"D", "N"}
  PROVE  Braces(k, Gear(k, g))
<1>1. "drive" \in Links /\ Frame("gear", g) \in DriveFrames /\ "gear" # "brake"
  BY FramesFit DEF Links, FramesOf
<1> QED
  BY <1>1, OtherWriteBraces DEF Gear

LEMMA SteerBraces ==
  ASSUME NEW k, Rigged(k), NEW dir \in {"stop", "turn"}
  PROVE  Braces(k, Steer(k, dir))
<1> DEFINE x == [k EXCEPT !.steer = dir]
<1>1. Same(k, x, {"steer"}) /\ {"steer"} \cap Watched = {} /\ "hb" \notin {"steer"}
  BY DEF Same, Rigged, Watched
<1> HIDE DEF x
<1>2. Braces(k, x) /\ Rigged(x)
  BY <1>1, TouchBraces
<1>3. "drive" \in Links /\ Frame("steer", dir) \in DriveFrames /\ "steer" # "brake"
  BY FramesFit DEF Links, FramesOf
<1>4. Braces(x, Write(x, "drive", "steer", dir, {}))
  BY <1>2, <1>3, OtherWriteBraces
<1>5. Braces(k, Write(x, "drive", "steer", dir, {}))
  BY <1>2, <1>4, BracesTwice
<1> QED
  BY <1>5 DEF Steer, x

\* The latch goes, and what it had left moving is halted.
LEMMA UnlatchedBraces ==
  ASSUME NEW k, Rigged(k)
  PROVE  Braces(k, Unlatched(k)) /\ Rigged(Unlatched(k))
<1> DEFINE m == Unmarked(k, "stop")
           u == [m EXCEPT !.stopped = FALSE, !.whole = TRUE, !.stopApply = Never]
           v == [u EXCEPT !.moving = FALSE]
           d == Write(v, "drive", "brake", "stop", {})
<1>1. Braces(k, m) /\ Rigged(m)
  BY UnmarkedApart, ApartBraces
<1>2. Unlatched(k) = IF u.moving THEN d ELSE u
  BY DEF Unlatched
<1> HIDE DEF m
<1>3. Same(m, u, {"stopped", "whole", "stopApply"}) /\ {"stopped", "whole", "stopApply"} \cap Watched = {}
      /\ "hb" \notin {"stopped", "whole", "stopApply"}
  BY <1>1 DEF Same, Rigged, Watched
<1> HIDE DEF u
<1>4. Braces(m, u) /\ Rigged(u)
  BY <1>1, <1>3, TouchBraces
<1>5. Same(u, v, {"moving"}) /\ v.moving = FALSE /\ {"moving"} \cap {"up", "broken", "wire", "ticked", "hb"} = {}
  BY <1>4 DEF Same, Rigged, Fields
<1> HIDE DEF v
<1>6. Braces(u, d)
  BY <1>4, <1>5, BrakeWriteBraces
<1> HIDE DEF d
<1>7. Braces(k, u) /\ Braces(k, d)
  BY <1>1, <1>4, <1>6, BracesTwice
<1> QED
  BY <1>2, <1>7 DEF Braces

LEMMA ClearFaultsBraces ==
  ASSUME NEW k, Rigged(k)
  PROVE  Braces(k, ClearFaults(k))
<1> DEFINE u == [k EXCEPT !.faulted = FALSE, !.boardTripped = FALSE]
           v == Unlatched(u)
           w == [v EXCEPT !.alive = FALSE]
           d == WriteDuty(w, "zero")
<1>1. Same(k, u, {"faulted", "boardTripped"}) /\ {"faulted", "boardTripped"} \cap Watched = {}
      /\ "hb" \notin {"faulted", "boardTripped"}
  BY DEF Same, Rigged, Watched
<1>2. ClearFaults(k) = d
  BY DEF ClearFaults
<1> HIDE DEF u
<1>3. Braces(k, u) /\ Rigged(u)
  BY <1>1, TouchBraces
<1>4. Braces(u, v) /\ Rigged(v)
  BY <1>3, UnlatchedBraces
<1> HIDE DEF v
<1>5. Same(v, w, {"alive"}) /\ {"alive"} \cap Watched = {} /\ "hb" \notin {"alive"}
  BY <1>4 DEF Same, Rigged, Watched
<1> HIDE DEF w
<1>6. Braces(v, w) /\ Rigged(w)
  BY <1>4, <1>5, TouchBraces
<1>7. Braces(w, d)
  BY <1>6, WriteDutyBraces
<1> HIDE DEF d
<1>8. Braces(k, d)
  BY <1>3, <1>4, <1>6, <1>7, BracesTwice
<1> QED
  BY <1>2, <1>8

------------------------------------------------------------------------------
(* Replies, the tick and the adapter, and the brake.                          *)

LEMMA OnReplyBraces ==
  ASSUME NEW k, Rigged(k), NEW l \in Links, NEW r, k.pending["drive"] \in Seq(TxnsOf("drive"))
  PROVE  Braces(k, OnReply(k, l, r))
<1> DEFINE w == Waiting(k, l, r.cmd)
           i == CHOOSE j \in w : \A n \in w : j <= n
           t == k.pending[l][i]
           a == [k EXCEPT !.pending[l] = RemoveAt(@, i),
                          !.whole = @ /\ ("stop" \in t.marks => AcksStop(l, t, r))]
<1>1. OnReply(k, l, r) = IF w = {} THEN k
                         ELSE IF l = "accel" THEN OnAccelReply(a, t, r) ELSE OnDriveReply(a, t, r)
  BY DEF OnReply
<1>0. ASSUME w # {}, l = "drive"
      PROVE  r.cmd \in {"gear", "brake", "alive", "angles", "steer"}
  <2>1. PICK j \in DOMAIN k.pending[l] : k.pending[l][j].cmd = r.cmd
    BY <1>0 DEF Waiting
  <2>2. k.pending["drive"][j] \in TxnsOf("drive")
    BY <1>0, <2>1
  <2> DEFINE x == k.pending["drive"][j]
  <2>3. Frame(x.cmd, x.arg) \in DriveFrames
    BY <2>2 DEF TxnsOf, FramesOf, Frame
  <2> HIDE DEF x
  <2>4. x.cmd \in {"gear", "brake", "alive", "angles", "steer"}
    BY <2>3 DEF Frame, DriveFrames
  <2> QED
    BY <1>0, <2>1, <2>4 DEF x
<1> HIDE DEF w, i, t
<1>2. Same(k, a, {"pending", "whole"}) /\ {"pending", "whole"} \cap Watched = {} /\ "hb" \notin {"pending", "whole"}
  BY DEF Same, Rigged, Watched
<1> HIDE DEF a
<1>3. Braces(k, a) /\ Rigged(a)
  BY <1>2, TouchBraces
<1>4. ASSUME NEW d, NEW X, Same(a, d, X), X \cap Watched = {}, "hb" \notin X
      PROVE  Braces(k, d) /\ \A brake : Braces(k, Fault(d, brake))
  <2>1. Braces(a, d) /\ Rigged(d)
    BY <1>3, <1>4, TouchBraces
  <2>2. \A brake : Braces(d, Fault(d, brake))
    BY <2>1, FaultBraces
  <2> QED
    BY <1>3, <2>1, <2>2, BracesTwice
<1>5. Braces(k, OnAccelReply(a, t, r))
  <2> DEFINE b == DutyAcked(a, t, r)
             e == [a EXCEPT !.timeouts = r.count]
  <2>1. Same(a, b, {"acked", "latestAcked", "alive"}) /\ Same(a, e, {"timeouts"}) /\ Same(a, a, {})
    BY <1>3 DEF Same, Rigged, DutyAcked
  <2>2. /\ {"acked", "latestAcked", "alive"} \cap Watched = {} /\ {"timeouts"} \cap Watched = {} /\ {} \cap Watched = {}
        /\ "hb" \notin {"acked", "latestAcked", "alive"} /\ "hb" \notin {"timeouts"} /\ "hb" \notin {}
    BY DEF Watched
  <2>3. OnAccelReply(a, t, r) \in {a, b, e, Fault(a, FALSE), Fault(e, FALSE)}
    BY DEF OnAccelReply, ReadBack
  <2> HIDE DEF b, e
  <2> QED
    BY <1>4, <2>1, <2>2, <2>3
<1>6. ASSUME w # {}, l = "drive" PROVE Braces(k, OnDriveReply(a, t, r))
  <2> DEFINE g == [a EXCEPT !.gear = IF r.ok THEN t.arg ELSE "unknown"]
             b == [a EXCEPT !.applied = FALSE]
             u == [a EXCEPT !.trips = r.count]
             v == [u EXCEPT !.announced = FALSE]
             p == [a EXCEPT !.at = r.at, !.readAge = 0]
  <2>1. /\ Same(a, a, {}) /\ Same(a, g, {"gear"}) /\ Same(a, b, {"applied"}) /\ Same(a, u, {"trips"})
        /\ Same(a, v, {"trips", "announced"}) /\ Same(a, p, {"at", "readAge"})
    BY <1>3 DEF Same, Rigged
  <2>2. /\ {} \cap Watched = {} /\ {"gear"} \cap Watched = {} /\ {"applied"} \cap Watched = {}
        /\ {"trips"} \cap Watched = {} /\ {"trips", "announced"} \cap Watched = {}
        /\ {"at", "readAge"} \cap Watched = {}
    BY DEF Watched
  <2>3. /\ "hb" \notin {} /\ "hb" \notin {"gear"} /\ "hb" \notin {"applied"} /\ "hb" \notin {"trips"}
        /\ "hb" \notin {"trips", "announced"} /\ "hb" \notin {"at", "readAge"}
    OBVIOUS
  <2>4. NoteTrips(a, r.count) \in {u, v, Fault(u, FALSE)}
    BY DEF NoteTrips
  <2>5. OnBrakeReply(a, t, r) \in {a, b, Fault(a, TRUE)}
    BY DEF OnBrakeReply
  <2> HIDE DEF g, b, u, v, p
  <2>6. Braces(k, a) /\ Braces(k, g) /\ Braces(k, p) /\ Braces(k, Fault(a, TRUE))
    <3>1. Braces(k, a) /\ Braces(k, Fault(a, TRUE))
      BY <1>4, <2>1, <2>2, <2>3
    <3>2. Braces(k, g)
      BY <1>4, <2>1, <2>2, <2>3
    <3>3. Braces(k, p)
      BY <1>4, <2>1, <2>2, <2>3
    <3> QED
      BY <3>1, <3>2, <3>3
  <2>7. Braces(k, NoteTrips(a, r.count)) /\ Braces(k, OnBrakeReply(a, t, r))
    <3>1. Braces(k, u) /\ Braces(k, Fault(u, FALSE))
      BY <1>4, <2>1, <2>2, <2>3
    <3>2. Braces(k, v)
      BY <1>4, <2>1, <2>2, <2>3
    <3>3. Braces(k, b)
      BY <1>4, <2>1, <2>2, <2>3
    <3>4. Braces(k, NoteTrips(a, r.count))
      BY <2>4, <3>1, <3>2
    <3>5. Braces(k, OnBrakeReply(a, t, r))
      BY <2>5, <2>6, <3>3
    <3> QED
      BY <3>4, <3>5
  <2>8. CASE r.cmd = "gear"
    BY <2>6, <2>8 DEF OnDriveReply, g
  <2>9. CASE r.cmd = "brake"
    BY <2>7, <2>9 DEF OnDriveReply
  <2>10. CASE r.cmd = "alive"
    BY <2>7, <2>10 DEF OnDriveReply
  <2>11. CASE r.cmd = "angles"
    BY <2>6, <2>11 DEF OnDriveReply, p
  <2>12. CASE r.cmd = "steer"
    BY <2>6, <2>12 DEF OnDriveReply
  <2> QED
    BY <1>0, <1>6, <2>8, <2>9, <2>10, <2>11, <2>12
<1> QED
  BY <1>1, <1>5, <1>6, BracesSelf DEF Links

LEMMA OnLineBraces ==
  ASSUME NEW k, Typed(k), NEW l \in Links, NEW r
  PROVE  Braces(k, OnLine(k, l, r))
<1> DEFINE h == IF l = "accel" THEN [k EXCEPT !.heard = TRUE] ELSE k
           v == [h EXCEPT !.announced = TRUE]
<1>1. OnLine(k, l, r) = IF r.cmd = "trip" THEN Fault(v, FALSE) ELSE OnReply(h, l, r)
  BY DEF OnLine
<1>2. Rigged(k) /\ k.pending["drive"] \in Seq(TxnsOf("drive"))
  BY TypedIsRigged DEF Typed, Ports, Links
<1>3. /\ Same(k, h, {"heard"}) /\ Same(k, v, {"heard", "announced"})
      /\ {"heard"} \cap Watched = {} /\ {"heard", "announced"} \cap Watched = {}
      /\ "hb" \notin {"heard"} /\ "hb" \notin {"heard", "announced"}
  BY <1>2 DEF Same, Rigged, Watched
<1> HIDE DEF h, v
<1>4. Braces(k, h) /\ Rigged(h) /\ Braces(k, v) /\ Rigged(v)
  BY <1>2, <1>3, TouchBraces
<1>5. h.pending["drive"] \in Seq(TxnsOf("drive"))
  BY <1>2, <1>3 DEF Same, Fields
<1>6. Braces(k, Fault(v, FALSE))
  BY <1>4, FaultBraces, BracesTwice
<1>7. Braces(k, OnReply(h, l, r))
  BY <1>4, <1>5, OnReplyBraces, BracesTwice
<1> QED
  BY <1>1, <1>6, <1>7

LEMMA LinkLostBraces ==
  ASSUME NEW k, Rigged(k), NEW l \in Links, l \in k.broken
  PROVE  Braces(k, LinkLost(k, l))
<1> DEFINE u == [k EXCEPT !.up[l] = FALSE]
<1>1. Same(k, u, {"up"}) /\ u.up = [k.up EXCEPT ![l] = FALSE]
  BY DEF Same, Rigged, Fields
<1> HIDE DEF u
<1>2. /\ u.wire = k.wire /\ u.hb = k.hb /\ u.broken = k.broken /\ u.ticked = k.ticked /\ DOMAIN u = Fields
      /\ u.moving = k.moving /\ u.moveDir = k.moveDir /\ u.moveAge = k.moveAge
  BY <1>1 DEF Same, Fields
<1>3. Rigged(u) /\ (u.up["drive"] = k.up["drive"] \/ "drive" \in k.broken)
  BY <1>1, <1>2 DEF Rigged, Links
<1>4. Braces(k, u)
  BY <1>2, <1>3, StillBraces
<1>5. Braces(k, Fault(u, TRUE))
  BY <1>3, <1>4, FaultBraces, BracesTwice
<1> QED
  BY <1>5 DEF LinkLost, u

LEMMA DeadlineBraces ==
  ASSUME NEW k, Rigged(k), NEW l \in Links
  PROVE  Braces(k, Deadline(k, l)) /\ Rigged(Deadline(k, l))
<1> DEFINE u == [k EXCEPT !.pending[l] = <<>>, !.alive = @ /\ l # "accel"]
<1>1. Same(k, u, {"pending", "alive"}) /\ {"pending", "alive"} \cap Watched = {} /\ "hb" \notin {"pending", "alive"}
  BY DEF Same, Rigged, Watched
<1> HIDE DEF u
<1>2. Braces(k, u) /\ Rigged(u)
  BY <1>1, TouchBraces
<1>3. Braces(k, Fault(u, TRUE))
  BY <1>2, FaultBraces, BracesTwice
<1>4. Deadline(k, l) \in {k, Fault(u, TRUE)}
  BY DEF Deadline, u
<1>5. Braces(k, Deadline(k, l))
  BY <1>3, <1>4, BracesSelf
<1> QED
  BY <1>5 DEF Braces

LEMMA DriveKeptAliveBraces ==
  ASSUME NEW k, Rigged(k)
  PROVE  Braces(k, DriveKeptAlive(k))
<1> DEFINE u == [k EXCEPT !.moving = FALSE]
<1>1. Braces(k, Write(k, "drive", "alive", "", {}))
  <2>1. "drive" \in Links /\ Frame("alive", "") \in DriveFrames /\ "alive" # "brake"
    BY FramesFit DEF Links, FramesOf
  <2> QED
    BY <2>1, OtherWriteBraces
<1>2. Same(k, u, {"moving"}) /\ u.moving = FALSE /\ {"moving"} \cap {"up", "broken", "wire", "ticked", "hb"} = {}
  BY DEF Same, Rigged, Fields
<1> HIDE DEF u
<1>3. Braces(k, Write(u, "drive", "brake", "stop", {}))
  BY <1>2, BrakeWriteBraces
<1> QED
  BY <1>1, <1>3, BracesSelf DEF DriveKeptAlive, u

LEMMA ProbedAndPolled ==
  ASSUME NEW k, Rigged(k)
  PROVE  Braces(k, AccelProbed(k)) /\ Braces(k, Polled(k))
<1>1. "accel" \in Links /\ "accel" # "drive" /\ "drive" \in Links
      /\ Frame("angles", "") \in DriveFrames /\ "angles" # "brake"
  BY FramesFit DEF Links, FramesOf
<1>2. \A cmd : Braces(k, Write(k, "accel", cmd, "", {}))
  BY <1>1, OtherWriteBraces
<1>3. Braces(k, Write(k, "drive", "angles", "", {}))
  BY <1>1, OtherWriteBraces
<1> QED
  BY <1>2, <1>3, BracesSelf DEF AccelProbed, Polled

\* Step 6 of the tick: no move that has had its stroke is left.
LEMMA BrakeBoundedBraces ==
  ASSUME NEW k, Rigged(k)
  PROVE  /\ Braces(k, BrakeBounded(k))
         /\ (k.moving => k.moveDir # "none") => Prompt(BrakeBounded(k))
<1> DEFINE u == [k EXCEPT !.moveDir = "none", !.moveAge = 0]
           v == [k EXCEPT !.moveDir = "none", !.moveAge = 0, !.moving = FALSE]
           X == {"moveDir", "moveAge", "moving"}
           halted == Write(v, "drive", "brake", "stop", {})
<1>1. BrakeBounded(k) = IF k.moveDir = "none" THEN k
                        ELSE IF ~k.moving THEN u
                        ELSE IF k.moveAge <= Stroke THEN k
                        ELSE IF Arrived(k) THEN halted ELSE Fault(halted, TRUE)
  BY DEF BrakeBounded
<1>2. /\ Same(k, v, X) /\ v.moving = FALSE /\ X \cap {"up", "broken", "wire", "ticked", "hb"} = {}
      /\ u.wire = k.wire /\ u.up = k.up /\ u.broken = k.broken /\ u.ticked = k.ticked /\ u.hb = k.hb
      /\ u.moving = k.moving /\ DOMAIN u = Fields
  BY DEF Same, Rigged, Fields
<1> HIDE DEF u, v, X
<1>3. ~k.moving => Braces(k, u) /\ Prompt(u)
  BY <1>2, StillBraces DEF Rigged, Prompt
<1>4. Braces(k, halted) /\ Prompt(halted)
  BY <1>2, BrakeWriteBraces
<1> HIDE DEF halted
<1>5. Braces(k, Fault(halted, TRUE)) /\ Prompt(Fault(halted, TRUE))
  <2>1. Braces(halted, Fault(halted, TRUE))
    BY <1>4, FaultBraces DEF Braces
  <2> QED
    BY <1>4, <2>1, BracesTwice DEF Braces
<1>6. Braces(k, k) /\ (k.moveAge <= Stroke => Prompt(k)) /\ (~k.moving => Prompt(k))
  BY BracesSelf DEF Prompt
<1>7. CASE k.moveDir = "none"
  BY <1>1, <1>6, <1>7
<1>8. CASE k.moveDir # "none" /\ ~k.moving
  BY <1>1, <1>3, <1>8
<1>9. CASE k.moveDir # "none" /\ k.moving /\ k.moveAge <= Stroke
  BY <1>1, <1>6, <1>9
<1>10. CASE k.moveDir # "none" /\ k.moving /\ ~(k.moveAge <= Stroke)
  BY <1>1, <1>4, <1>5, <1>10
<1> QED
  BY <1>7, <1>8, <1>9, <1>10

\* A tick leaves no move that has had its stroke.
LEMMA TickBraces ==
  ASSUME NEW k, Rigged(k), NEW b, NEW o \in Nat, Braced(k, b, o)
  PROVE  LET d == Tick(k)
         IN  /\ Prompt(d) /\ Braced(d, b, o) /\ d.broken = k.broken
             /\ "drive" \in k.broken => d.wire["drive"] = k.wire["drive"]
<1> DEFINE k1 == Deadline(k, "accel")
           k2 == Deadline(k1, "drive")
           k3 == HeartbeatChecked(k2)
           k4 == DriveKeptAlive(k3)
           k5 == AccelProbed(k4)
           k6 == Polled(k5)
           k7 == BrakeBounded(k6)
           d == [k7 EXCEPT !.ticked = TRUE]
<1>0. "accel" \in Links /\ "drive" \in Links
  BY DEF Links
<1>1. Tick(k) = d
  BY DEF Tick
<1>2. Braces(k, k1) /\ Rigged(k1)
  BY <1>0, DeadlineBraces
<1> HIDE DEF k1
<1>3. Braces(k1, k2) /\ Rigged(k2)
  BY <1>0, <1>2, DeadlineBraces
<1> HIDE DEF k2
<1>4. Braces(k2, k3) /\ Rigged(k3)
  <2>1. k3 \in {k2, SafeStop(k2, TRUE)}
    BY DEF HeartbeatChecked
  <2> HIDE DEF k3
  <2>2. Braces(k2, k3)
    BY <1>3, <2>1, SafeStopBraces, BracesSelf
  <2> QED
    BY <2>2 DEF Braces
<1> HIDE DEF k3
<1>5. Braces(k3, k4)
  BY <1>4, DriveKeptAliveBraces
<1> HIDE DEF k4
<1>6. Rigged(k4)
  BY <1>5 DEF Braces
<1>7. Braces(k4, k5)
  BY <1>6, ProbedAndPolled
<1> HIDE DEF k5
<1>8. Rigged(k5)
  BY <1>7 DEF Braces
<1>9. Braces(k5, k6)
  BY <1>8, ProbedAndPolled
<1> HIDE DEF k6
<1>10. Braces(k, k6) /\ Rigged(k6)
  BY <1>2, <1>3, <1>4, <1>5, <1>7, <1>9, BracesTwice DEF Braces
<1>11. k6.moving => k6.moveDir # "none"
  BY <1>10 DEF Braces, Braced
<1>12. Braces(k6, k7) /\ Prompt(k7)
  BY <1>10, <1>11, BrakeBoundedBraces
<1> HIDE DEF k7
<1>13. Braces(k, k7) /\ Rigged(k7)
  BY <1>10, <1>12, BracesTwice DEF Braces
<1>14. /\ d.wire = k7.wire /\ d.up = k7.up /\ d.broken = k7.broken
       /\ d.moving = k7.moving /\ d.moveDir = k7.moveDir /\ d.moveAge = k7.moveAge
  BY <1>13 DEF Rigged, Fields
<1> HIDE DEF d
<1>15. Braced(d, b, o) /\ Prompt(d)
  BY <1>12, <1>13, <1>14 DEF Braces, Braced, Prompt
<1>16. d.broken = k.broken /\ ("drive" \in k.broken => d.wire["drive"] = k.wire["drive"])
  BY <1>13, <1>14 DEF Braces
<1> QED
  BY <1>1, <1>15, <1>16

\* The parts of apply().
LEMMA TryBraces ==
  ASSUME NEW x, Rigged(x.c), NEW cmd \in Commands
  PROVE  /\ Braces(x.c, TryGear(x, cmd).c) /\ Braces(x.c, TryBrake(x, cmd).c)
         /\ Braces(x.c, TryThrottle(x, cmd).c) /\ Braces(x.c, TrySteer(x, cmd).c)
<1>1. cmd.gear \in {"D", "N"} /\ cmd.steer \in {"stop", "turn"}
  BY RigAssumption DEF Commands
<1>2. Braces(x.c, x.c)
  BY BracesSelf
<1>3. Braces(x.c, TryGear(x, cmd).c)
  BY <1>1, <1>2, GearBraces DEF TryGear
<1>4. Braces(x.c, TryBrake(x, cmd).c)
  BY <1>2, ApplyBrakeBraces, ReleaseBrakeBraces DEF TryBrake
<1>5. Braces(x.c, TryThrottle(x, cmd).c)
  BY <1>2, SetThrottleBraces DEF TryThrottle
<1>6. Braces(x.c, TrySteer(x, cmd).c)
  BY <1>1, <1>2, SteerBraces DEF TrySteer
<1> QED
  BY <1>3, <1>4, <1>5, <1>6

LEMMA AppliedBraces ==
  ASSUME NEW x, Rigged(x.c), NEW cmd \in Commands
  PROVE  Braces(x.c, Applied(x, cmd).c)
<1> DEFINE y1 == TryGear(x, cmd)
           y2 == TryBrake(y1, cmd)
           y3 == TryThrottle(y2, cmd)
           y4 == TrySteer(y3, cmd)
<1>1. Applied(x, cmd) = y4
  BY DEF Applied
<1>2. Braces(x.c, y1.c)
  BY TryBraces
<1> HIDE DEF y1
<1>3. Rigged(y1.c)
  BY <1>2 DEF Braces
<1>4. Braces(y1.c, y2.c)
  BY <1>3, TryBraces
<1> HIDE DEF y2
<1>5. Rigged(y2.c)
  BY <1>4 DEF Braces
<1>6. Braces(y2.c, y3.c)
  BY <1>5, TryBraces
<1> HIDE DEF y3
<1>7. Rigged(y3.c)
  BY <1>6 DEF Braces
<1>8. Braces(y3.c, y4.c)
  BY <1>7, TryBraces
<1> HIDE DEF y4
<1>9. Braces(x.c, y4.c)
  BY <1>2, <1>4, <1>6, <1>8, BracesTwice
<1> QED
  BY <1>1, <1>9

------------------------------------------------------------------------------
(* The rig, and the brake.                                                    *)

\* How far a brake may outlast its stroke when nobody is left to stop it: by as much as
\* its board has been silent.
Grace(k, q) == IF "drive" \in k.broken /\ k.wire["drive"] = <<>> THEN q ELSE 0

\* A brake that moves has been fed within the silence, and has not been on for longer
\* than a stroke and the unit of time the tick needs.
Timed(k, b) ==
    b.brake # "stop" =>
        /\ b.quiet <= Silence /\ (b.on > 0 => Silence >= 1)
        /\ b.on <= Stroke + 1 + Grace(k, b.quiet)

BrakeHolds(k, b) ==
    /\ Braced(k, b.brake, b.on)
    /\ b.tripped => b.brake = "stop"
    /\ Timed(k, b)
    /\ "port" \notin Mishaps => "drive" \notin k.broken

BrakeInv == ~hung => (c.ticked => Prompt(c)) /\ BrakeHolds(c, drive)

LEMMA HoldsOn ==
  ASSUME NEW k, NEW d, Braces(k, d), NEW b, b.on \in Nat, BrakeHolds(k, b)
  PROVE  BrakeHolds(d, b)
<1>1. Braced(d, b.brake, b.on) /\ d.broken = k.broken
  BY DEF BrakeHolds, Braces
<1>2. Grace(d, b.quiet) = Grace(k, b.quiet)
  BY DEF Grace, Braces
<1>3. Timed(d, b)
  BY <1>2 DEF BrakeHolds, Timed
<1> QED
  BY <1>1, <1>3 DEF BrakeHolds

LEMMA BoardTyped ==
  ASSUME RigInv
  PROVE  /\ drive \in DriveBoards(Horizon) /\ drive.on \in Nat /\ drive.quiet \in Nat
         /\ Rigged(c) /\ c.moveAge \in Nat /\ Typed(c)
<1>1. drive \in DriveBoards(Horizon) /\ Typed(c)
  BY DEF RigInv, RigTyped, AroundTyped
<1> QED
  BY <1>1, TypedIsRigged, TimesAssumption, SilenceAssumption DEF DriveBoards, Typed, Scalars

\* The bridge's heartbeat does not matter to the brake.
LEMMA FedHolds ==
  ASSUME RigInv
  PROVE  /\ Rigged(Fed) /\ Fed.ticked = c.ticked /\ (Prompt(c) => Prompt(Fed))
         /\ BrakeHolds(c, drive) => BrakeHolds(Fed, drive)
<1>1. Same(c, Fed, {"hb"}) /\ Rigged(Fed)
  BY ControlsRigged DEF Fed, Same, Rigged
<1>2. /\ Fed.wire = c.wire /\ Fed.up = c.up /\ Fed.broken = c.broken /\ Fed.ticked = c.ticked
      /\ Fed.moving = c.moving /\ Fed.moveDir = c.moveDir /\ Fed.moveAge = c.moveAge
  BY <1>1 DEF Same, Fields
<1>3. Rigged(c)
  BY BoardTyped
<1>4. Braces(c, Fed)
  BY <1>1, <1>2, <1>3, StillBraces
<1> QED
  BY <1>1, <1>4, BoardTyped, HoldsOn DEF Braces

\* A call of the bridge, or a line of a board.
LEMMA BracedStep ==
  ASSUME RigInv, BrakeInv, drive' = drive, hung' = hung, NEW k \in {c, Fed}, Braces(k, c')
  PROVE  BrakeInv'
<1> SUFFICES ASSUME ~hung PROVE (c'.ticked => Prompt(c')) /\ BrakeHolds(c', drive)
  BY DEF BrakeInv, BrakeHolds, Braced, Timed, Grace, Prompt
<1>1. (k.ticked => Prompt(k)) /\ BrakeHolds(k, drive)
  BY FedHolds DEF BrakeInv
<1>2. BrakeHolds(c', drive)
  BY <1>1, BoardTyped, HoldsOn
<1> QED
  BY <1>1, <1>2 DEF Braces

\* What the drive module makes of a frame.
LEMMA DriveTakesMoves ==
  ASSUME NEW b \in DriveBoards(Horizon), NEW f \in DriveFrames, b.tripped => b.brake = "stop"
  PROVE  LET d == DriveTakes(b, f)
         IN  /\ d.tripped => d.brake = "stop"
             /\ d.brake # "stop" =>
                   \/ f \in Moves /\ d.on = 0 /\ d.quiet = 0
                   \/ d.brake = b.brake /\ f.cmd # "brake" /\ d.on = b.on /\ d.quiet \in {0, b.quiet}
<1> DEFINE motion == f.cmd \in {"brake", "steer"}
           cleared == IF motion /\ f.arg = "stop" THEN [b EXCEPT !.tripped = FALSE] ELSE b
           fresh == [cleared EXCEPT !.quiet = 0]
           why == WhyNot(b, f)
           d == DriveTakes(b, f)
<1> SUFFICES /\ d.tripped => d.brake = "stop"
             /\ d.brake # "stop" =>
                   \/ f \in Moves /\ d.on = 0 /\ d.quiet = 0
                   \/ d.brake = b.brake /\ f.cmd # "brake" /\ d.on = b.on /\ d.quiet \in {0, b.quiet}
  OBVIOUS
<1>1. /\ f.cmd \in {"brake", "steer", "gear", "alive", "angles"}
      /\ f.cmd = "brake" => f.arg \in {"stop", "apply", "release"}
      /\ f.cmd = "brake" /\ f.arg # "stop" => f \in Moves
  BY DEF DriveFrames, Frame, Moves
<1>3. /\ cleared \in DriveBoards(Horizon) /\ cleared.brake = b.brake /\ cleared.on = b.on
      /\ cleared.tripped = IF motion /\ f.arg = "stop" THEN FALSE ELSE b.tripped
  BY DEF DriveBoards
<1> HIDE DEF cleared
<1>4. /\ fresh.quiet = 0 /\ fresh.brake = b.brake /\ fresh.on = b.on /\ fresh.tripped = cleared.tripped
      /\ DOMAIN fresh = DOMAIN b /\ {"steer", "brake", "on"} \subseteq DOMAIN fresh
  BY <1>3 DEF DriveBoards
<1> HIDE DEF fresh
<1>5. \A dir : /\ SwitchBrake(fresh, dir).quiet = 0 /\ SwitchBrake(fresh, dir).brake = dir
               /\ SwitchBrake(fresh, dir).tripped = cleared.tripped /\ SwitchBrake(fresh, dir).on = 0
               /\ SwitchBrake(b, dir).brake = dir
  BY <1>4 DEF SwitchBrake, DriveBoards
<1>6. why \in {"WD_TRIPPED", "STALL", "AT_LIMIT", ""}
  BY DEF WhyNot, BlockReason
<1>7. CASE why = "WD_TRIPPED"
  <2>1. d = b
    BY <1>7 DEF DriveTakes
  <2>2. b.tripped
    BY <1>7 DEF WhyNot, Refused, BlockReason
  <2> QED
    BY <2>1, <2>2
<1>8. CASE why \in {"STALL", "AT_LIMIT"}
  <2>1. d = SwitchBrake(b, "stop")
    BY <1>8 DEF DriveTakes
  <2> QED
    BY <1>5, <2>1
<1>9. CASE why = "" /\ f.cmd = "brake"
  <2>1. d = SwitchBrake(fresh, f.arg)
    BY <1>9 DEF DriveTakes, fresh, cleared
  <2>2. f.arg # "stop" => ~b.tripped
    BY <1>9 DEF WhyNot, Refused
  <2>3. cleared.tripped => f.arg = "stop"
    BY <1>3, <1>9, <2>2
  <2> QED
    BY <1>1, <1>5, <1>9, <2>1, <2>3, ZenonT(40)
<1>10. CASE why = "" /\ f.cmd = "steer"
  <2>1. d = [fresh EXCEPT !.steer = f.arg]
    BY <1>10 DEF DriveTakes, fresh, cleared
  <2>2. d.brake = b.brake /\ d.quiet = 0 /\ d.on = b.on /\ d.tripped = cleared.tripped
    BY <1>4, <2>1
  <2>3. cleared.tripped => b.tripped
    BY <1>3
  <2> QED
    BY <1>10, <2>2, <2>3
<1>11. CASE why = "" /\ f.cmd = "alive"
  <2>1. d = fresh
    BY <1>11 DEF DriveTakes, fresh, cleared
  <2>2. cleared.tripped => b.tripped
    BY <1>3
  <2> QED
    BY <1>4, <1>11, <2>1, <2>2
<1>12. CASE why = "" /\ f.cmd \in {"gear", "angles"}
  <2>1. d = b
    BY <1>12 DEF DriveTakes
  <2> QED
    BY <1>12, <2>1
<1> QED
  BY <1>1, <1>6, <1>7, <1>8, <1>9, <1>10, <1>11, <1>12

\* What moves when the board has taken the rest was to move when it had taken all.
LEMMA MovesTaken ==
  ASSUME NEW v \in Seq(DriveFrames), v # <<>>, NEW s, NEW t,
         t # "stop" => Head(v) \in Moves \/ (s # "stop" /\ Head(v).cmd # "brake"),
         MovesOn(Tail(v), t)
  PROVE  MovesOn(v, s)
<1> DEFINE w == Tail(v)
<1>1. /\ Len(v) \in Nat \ {0} /\ DOMAIN v = 1 .. Len(v) /\ Head(v) = v[1]
      /\ DOMAIN w = 1 .. Len(v) - 1 /\ \A i \in DOMAIN w : w[i] = v[i + 1]
  OBVIOUS
<1> HIDE DEF w
<1>2. CASE t # "stop" /\ \A i \in DOMAIN w : w[i] # Halt
  <2>1. ASSUME NEW j \in DOMAIN v, j > 1 PROVE v[j] # Halt
    <3>1. j - 1 \in DOMAIN w /\ v[j] = w[j - 1]
      BY <1>1, <2>1
    <3> QED
      BY <1>2, <3>1
  <2>2. CASE Head(v) \in Moves
    BY <1>1, <2>1, <2>2 DEF MovesOn
  <2>3. CASE s # "stop" /\ Head(v).cmd # "brake"
    <3>1. v[1] # Halt
      BY <1>1, <2>3 DEF Halt, Frame
    <3>2. \A j \in DOMAIN v : v[j] # Halt
      BY <1>1, <2>1, <3>1
    <3> QED
      BY <2>3, <3>2 DEF MovesOn
  <2> QED
    BY <1>2, <2>2, <2>3
<1>3. CASE \E i \in DOMAIN w : w[i] \in Moves /\ \A j \in DOMAIN w : j > i => w[j] # Halt
  <2>1. PICK i \in DOMAIN w : w[i] \in Moves /\ \A j \in DOMAIN w : j > i => w[j] # Halt
    BY <1>3
  <2>2. i + 1 \in DOMAIN v /\ v[i + 1] \in Moves
    BY <1>1, <2>1
  <2>3. ASSUME NEW j \in DOMAIN v, j > i + 1 PROVE v[j] # Halt
    <3>1. j - 1 \in DOMAIN w /\ j - 1 > i /\ v[j] = w[j - 1]
      BY <1>1, <2>3
    <3> QED
      BY <2>1, <3>1
  <2> QED
    BY <2>2, <2>3 DEF MovesOn
<1> QED
  BY <1>2, <1>3 DEF MovesOn, w

LEMMA UnbrakedTaken ==
  ASSUME NEW v \in Seq(DriveFrames), v # <<>>, Head(v).cmd # "brake", Unbraked(Tail(v))
  PROVE  Unbraked(v)
<1> DEFINE w == Tail(v)
<1>1. /\ Len(v) \in Nat \ {0} /\ DOMAIN v = 1 .. Len(v) /\ Head(v) = v[1]
      /\ DOMAIN w = 1 .. Len(v) - 1 /\ \A i \in DOMAIN w : w[i] = v[i + 1]
  OBVIOUS
<1>2. \A i \in DOMAIN w : w[i].cmd # "brake"
  BY DEF Unbraked
<1> HIDE DEF w
<1>3. ASSUME NEW i \in DOMAIN v PROVE v[i].cmd # "brake"
  <2>1. CASE i = 1
    BY <1>1, <2>1
  <2>2. CASE i # 1
    <3>1. i - 1 \in DOMAIN w /\ w[i - 1] = v[i]
      BY <1>1, <2>2
    <3> QED
      BY <1>2, <3>1
  <2> QED
    BY <2>1, <2>2
<1> QED
  BY <1>3 DEF Unbraked

LEMMA DriveUntakenMoves ==
  ASSUME RigInv, c.wire["drive"] # <<>>
  PROVE  LET k == Untaken("drive")
         IN  /\ Rigged(k) /\ Typed(k) /\ k.wire["drive"] = Tail(c.wire["drive"])
             /\ k.up = c.up /\ k.broken = c.broken /\ k.ticked = c.ticked
             /\ k.moving = c.moving /\ k.moveDir = c.moveDir /\ k.moveAge = c.moveAge
             /\ Head(c.wire["drive"]) \in DriveFrames
<1>1. DOMAIN c = Fields
  BY ControlsResemble DEF Typed
<1> QED
  BY <1>1, DriveUntaken DEF Untaken, Fields

\* The board takes a frame.
LEMMA TakingHolds ==
  ASSUME RigInv, BrakeHolds(c, drive), c.wire["drive"] # <<>>,
         drive' = DriveTakes(drive, Head(c.wire["drive"]))
  PROVE  BrakeHolds(Untaken("drive"), drive') /\ drive'.on \in Nat
<1> DEFINE v == c.wire["drive"]
           f == Head(v)
           k == Untaken("drive")
           s == drive.brake
           t == drive'.brake
<1>1. /\ k.wire["drive"] = Tail(v) /\ k.up = c.up /\ k.broken = c.broken
      /\ k.moving = c.moving /\ k.moveDir = c.moveDir /\ k.moveAge = c.moveAge /\ f \in DriveFrames
  BY DriveUntakenMoves
<1>2. v \in Seq(DriveFrames) /\ v # <<>>
  BY ControlsResemble, TypedWires
<1>3. /\ drive \in DriveBoards(Horizon) /\ (drive.tripped => s = "stop")
      /\ Braced(c, s, drive.on) /\ Timed(c, drive)
      /\ "port" \notin Mishaps => "drive" \notin c.broken
  BY BoardTyped DEF BrakeHolds
<1>4. drive' = DriveTakes(drive, f)
  OBVIOUS
<1> HIDE DEF f, k
<1>5. /\ drive'.tripped => t = "stop"
      /\ t # "stop" => \/ f \in Moves /\ drive'.on = 0 /\ drive'.quiet = 0
                       \/ t = s /\ f.cmd # "brake" /\ drive'.on = drive.on /\ drive'.quiet \in {0, drive.quiet}
  BY <1>1, <1>3, <1>4, DriveTakesMoves
<1>6. MovesOn(Tail(v), t) => MovesOn(v, s)
  <2>1. t # "stop" => f \in Moves \/ (s # "stop" /\ f.cmd # "brake")
    BY <1>5
  <2> HIDE DEF v, s, t
  <2> QED
    BY <1>2, <2>1, MovesTaken DEF f
<1>7. {drive.on, drive.quiet, c.moveAge, Silence, Stroke} \subseteq Nat
  BY BoardTyped, TimesAssumption, SilenceAssumption
<1>8. f.cmd # "brake" /\ Unbraked(Tail(v)) => Unbraked(v)
  <2> HIDE DEF v
  <2> QED
    BY <1>2, UnbrakedTaken DEF f
<1>9. drive'.on \in Nat /\ drive' \in DriveBoards(Horizon)
  <2>1. drive' \in DriveBoards(Horizon)
    BY <1>1, <1>3, <1>4, DriveBoardDoes
  <2> QED
    BY <2>1, TimesAssumption DEF DriveBoards
<1>10. Braced(k, t, drive'.on)
  <2>1. t # "stop" /\ Unbraked(Tail(v)) => drive'.on <= c.moveAge \/ "drive" \in c.broken
    <3> HAVE t # "stop" /\ Unbraked(Tail(v))
    <3>1. CASE drive'.on = 0
      BY <1>7, <3>1
    <3>2. CASE t = s /\ f.cmd # "brake" /\ drive'.on = drive.on
      BY <1>3, <1>8, <3>2 DEF Braced
    <3> QED
      BY <1>5, <3>1, <3>2
  <2>2. MovesOn(Tail(v), t) => c.moving \/ "drive" \in c.broken
    BY <1>3, <1>6 DEF Braced
  <2> QED
    BY <1>1, <1>3, <2>1, <2>2 DEF Braced
<1>11. Timed(k, drive')
  <2> SUFFICES ASSUME t # "stop"
               PROVE  /\ drive'.quiet <= Silence /\ (drive'.on > 0 => Silence >= 1)
                      /\ drive'.on <= Stroke + 1 + Grace(k, drive'.quiet)
    BY DEF Timed
  <2>1. drive'.quiet \in Nat /\ Grace(k, drive'.quiet) \in Nat
    <3>1. drive'.quiet \in Nat
      BY <1>5, <1>7
    <3> QED
      BY <3>1 DEF Grace
  <2>2. CASE drive'.on = 0 /\ drive'.quiet = 0
    BY <1>7, <2>1, <2>2
  <2>3. CASE t = s /\ drive'.on = drive.on /\ drive'.quiet \in {0, drive.quiet}
    <3>1. Grace(c, drive.quiet) = 0
      BY <1>2 DEF Grace
    <3>2. drive.quiet <= Silence /\ (drive.on > 0 => Silence >= 1) /\ drive.on <= Stroke + 1
      BY <1>3, <1>7, <2>3, <3>1 DEF Timed
    <3> QED
      BY <1>7, <2>1, <2>3, <3>2
  <2> QED
    BY <1>5, <2>2, <2>3
<1> QED
  BY <1>1, <1>3, <1>5, <1>9, <1>10, <1>11 DEF BrakeHolds, k

LEMMA HeardBraces ==
  ASSUME NEW k, Typed(k), NEW l \in Links, NEW r
  PROVE  Braces(k, Heard(k, l, r))
BY OnLineBraces, TypedIsRigged, BracesSelf DEF Heard

\* What the board answers comes after.
LEMMA TakenBraced ==
  ASSUME RigInv, BrakeInv, hung' = hung, c.wire["drive"] # <<>>,
         drive' = DriveTakes(drive, Head(c.wire["drive"])), Braces(Untaken("drive"), c')
  PROVE  BrakeInv'
<1> SUFFICES ASSUME ~hung PROVE (c'.ticked => Prompt(c')) /\ BrakeHolds(c', drive')
  BY DEF BrakeInv, BrakeHolds, Braced, Timed, Grace, Prompt
<1> DEFINE k == Untaken("drive")
<1>1. (c.ticked => Prompt(c)) /\ BrakeHolds(c, drive)
  BY DEF BrakeInv
<1>2. BrakeHolds(k, drive') /\ drive'.on \in Nat
  BY <1>1, TakingHolds
<1>3. k.ticked = c.ticked /\ k.moving = c.moving /\ k.moveAge = c.moveAge
  BY DriveUntakenMoves
<1> HIDE DEF k
<1>4. Braces(k, c')
  BY DEF k
<1>5. BrakeHolds(c', drive')
  BY <1>2, <1>4, HoldsOn
<1>6. c'.ticked => Prompt(c')
  BY <1>1, <1>3, <1>4 DEF Braces, Prompt
<1> QED
  BY <1>5, <1>6

LEMMA CommandBraces ==
  ASSUME RigInv, BrakeInv, NEW cmd \in Commands, Command(cmd)
  PROVE  BrakeInv'
<1> DEFINE x == [c |-> Fed, a |-> adapter]
           y == Applied(x, cmd)
<1>1. Braces(Fed, Fed) /\ Braces(Fed, y.c)
  BY ControlsRigged, BracesSelf, AppliedBraces
<1>2. c' = Fed \/ c' = y.c
  BY DEF Command, Both
<1> HIDE DEF y
<1> QED
  BY <1>1, <1>2, BracedStep DEF Command

LEMMA CallGoesOnBraces ==
  ASSUME RigInv, BrakeInv, CallGoesOn
  PROVE  BrakeInv'
<1> DEFINE x == [c |-> c, a |-> adapter]
           part == Head(call.todo)
           y == Try(part, x, call.cmd)
<1>1. call \in Calls
  BY DEF CallGoesOn, RigInv, RigTyped, AroundTyped
<1>2. part \in {"gear", "brake", "throttle", "steer"} /\ call.cmd \in Commands
  BY <1>1, CallsGoOn DEF PartNames
<1> HIDE DEF part
<1>3. Braces(c, y.c)
  <2>1. /\ Braces(c, TryGear(x, call.cmd).c) /\ Braces(c, TryBrake(x, call.cmd).c)
        /\ Braces(c, TryThrottle(x, call.cmd).c) /\ Braces(c, TrySteer(x, call.cmd).c)
    BY <1>2, ControlsRigged, TryBraces
  <2> QED
    BY <1>2, <2>1 DEF Try
<1>4. c' = y.c
  BY DEF CallGoesOn, Both, part
<1> HIDE DEF y
<1> QED
  BY <1>3, <1>4, BracedStep DEF CallGoesOn

\* The stops and the latch.
LEMMA CallsBrace ==
  ASSUME RigInv, BrakeInv, EstopHeld \/ BridgeStops \/ Resume \/ HumanClears
  PROVE  BrakeInv'
<1>1. ASSUME NEW k \in {c, Fed}, Stop(k) PROVE BrakeInv'
  <2>1. Braces(k, SafeStop(k, TRUE))
    BY <1>1, ControlsRigged, SafeStopBraces
  <2>2. c' = SafeStop(k, TRUE) /\ drive' = drive /\ hung' = hung
    BY <1>1 DEF Stop, Both, Stopping
  <2> QED
    BY <2>1, <2>2, BracedStep
<1>2. CASE Resume
  <2>1. Braces(c, c')
    BY <1>2, ControlsRigged, UnlatchedBraces DEF Resume
  <2> QED
    BY <1>2, <2>1, BracedStep DEF Resume
<1>3. CASE HumanClears
  <2>1. Braces(c, c')
    BY <1>3, ControlsRigged, ClearFaultsBraces DEF HumanClears
  <2> QED
    BY <1>3, <2>1, BracedStep DEF HumanClears
<1> QED
  BY <1>1, <1>2, <1>3 DEF EstopHeld, BridgeStops

LEMMA TickHolds ==
  ASSUME RigInv, BrakeInv, TickRuns
  PROVE  BrakeInv'
<1> DEFINE d == Tick(c)
<1>1. ~hung /\ c' = d /\ drive' = drive /\ hung' = hung
  BY DEF TickRuns
<1>2. BrakeHolds(c, drive) /\ drive.on \in Nat /\ Rigged(c)
  BY <1>1, BoardTyped DEF BrakeInv
<1>3. /\ Prompt(d) /\ Braced(d, drive.brake, drive.on) /\ d.broken = c.broken
      /\ "drive" \in c.broken => d.wire["drive"] = c.wire["drive"]
  BY <1>2, TickBraces DEF BrakeHolds
<1> HIDE DEF d
<1>4. Grace(d, drive.quiet) = Grace(c, drive.quiet)
  BY <1>3 DEF Grace
<1>5. BrakeHolds(d, drive)
  BY <1>2, <1>3, <1>4 DEF BrakeHolds, Timed
<1>6. BrakeInv' <=> (~hung' => (c'.ticked => Prompt(c')) /\ BrakeHolds(c', drive'))
  BY DEF BrakeInv, BrakeHolds, Braced, Timed, Grace, Prompt
<1> QED
  BY <1>1, <1>3, <1>5, <1>6

\* A reader takes a line, or ends.
LEMMA ReadersBrace ==
  ASSUME RigInv, BrakeInv, NEW l \in Links, Read(l) \/ ReaderEnds(l)
  PROVE  BrakeInv'
<1>1. CASE Read(l)
  <2>1. Braces(c, c')
    BY <1>1, ControlsRigged, OnLineBraces DEF Read
  <2> QED
    BY <1>1, <2>1, BracedStep DEF Read
<1>2. CASE ReaderEnds(l)
  <2>1. Braces(c, c')
    BY <1>2, ControlsRigged, LinkLostBraces DEF ReaderEnds
  <2> QED
    BY <1>2, <2>1, BracedStep DEF ReaderEnds
<1> QED
  BY <1>1, <1>2

LEMMA AccelUntakenBraces ==
  ASSUME RigInv, c.wire["accel"] # <<>>
  PROVE  Braces(c, Untaken("accel")) /\ Typed(Untaken("accel"))
<1> DEFINE k == Untaken("accel")
<1>1. "accel" \in Links /\ "drive" \in Links /\ "accel" # "drive"
  BY DEF Links
<1>2. Typed(k) /\ Rigged(k) /\ Rigged(c)
  BY AccelUntaken, BoardTyped, TypedIsRigged
<1>3. DOMAIN c = Fields /\ DOMAIN c.wire = Links
  BY ControlsRigged DEF Typed, Ports
<1>4. /\ k.wire = [c.wire EXCEPT !["accel"] = Tail(@)]
      /\ k.up = c.up /\ k.broken = c.broken /\ k.ticked = c.ticked
      /\ k.moving = c.moving /\ k.moveDir = c.moveDir /\ k.moveAge = c.moveAge
  BY <1>3 DEF Untaken, Fields
<1> HIDE DEF k
<1>5. k.wire["drive"] = c.wire["drive"]
  BY <1>1, <1>3, <1>4
<1>6. Braces(c, k)
  BY <1>2, <1>4, <1>5, StillBraces
<1> QED
  BY <1>2, <1>6 DEF k

\* A board takes a frame.
LEMMA TakingsBrace ==
  ASSUME RigInv, BrakeInv, ThrottleBoardTakes \/ DriveBoardTakes \/ SignalFails \/ \E l \in Links : LineLost(l)
  PROVE  BrakeInv'
<1>0. "accel" \in Links /\ "drive" \in Links /\ "accel" # "drive"
  BY DEF Links
<1>1. CASE ThrottleBoardTakes
  <2> DEFINE k == Untaken("accel")
             r == ThrottleAnswers(throttle, Head(c.wire["accel"]))
  <2>1. Braces(c, k) /\ Typed(k) /\ c' = Heard(k, "accel", r) /\ drive' = drive /\ hung' = hung
    BY <1>1, AccelUntakenBraces DEF ThrottleBoardTakes, Answer
  <2> HIDE DEF k, r
  <2>2. Braces(k, c')
    BY <1>0, <2>1, HeardBraces
  <2>3. Braces(c, c')
    BY <2>1, <2>2, BracesTwice
  <2> QED
    BY <2>1, <2>3, BracedStep
<1>2. CASE DriveBoardTakes
  <2> DEFINE k == Untaken("drive")
             f == Head(c.wire["drive"])
             r == DriveAnswers(drive, f, TRUE)
  <2>1. /\ c.wire["drive"] # <<>> /\ drive' = DriveTakes(drive, f) /\ c' = Heard(k, "drive", r)
        /\ hung' = hung
    BY <1>2 DEF DriveBoardTakes, Answer
  <2>2. Typed(k)
    BY <2>1, DriveUntaken
  <2> HIDE DEF r
  <2>3. Braces(k, c')
    <3> HIDE DEF k
    <3> QED
      BY <1>0, <2>1, <2>2, HeardBraces
  <2> QED
    BY <2>1, <2>3, TakenBraced
<1>3. CASE SignalFails
  <2> DEFINE k == Untaken("drive")
             f == Head(c.wire["drive"])
             r == DriveAnswers(drive, f, FALSE)
  <2>1. /\ c.wire["drive"] # <<>> /\ f.cmd = "angles" /\ drive' = drive /\ c' = Heard(k, "drive", r)
        /\ hung' = hung
    BY <1>3 DEF SignalFails, Answer
  <2>2. Typed(k) /\ f \in DriveFrames
    BY <2>1, DriveUntaken
  <2>3. drive' = DriveTakes(drive, f)
    <3>1. f.cmd \notin {"brake", "steer", "alive"}
      BY <2>1
    <3>2. DriveTakes(drive, f) = drive
      <4> HIDE DEF f
      <4>1. WhyNot(drive, f) = ""
        BY <3>1 DEF WhyNot, Refused
      <4> QED
        BY <3>1, <4>1 DEF DriveTakes
    <3> QED
      BY <2>1, <3>2
  <2> HIDE DEF r
  <2>4. Braces(k, c')
    <3> HIDE DEF k
    <3> QED
      BY <1>0, <2>1, <2>2, HeardBraces
  <2> QED
    BY <2>1, <2>3, <2>4, TakenBraced
<1>4. ASSUME NEW l \in Links, LineLost(l) PROVE BrakeInv'
  <2>1. CASE l = "accel"
    <3>1. Braces(c, c') /\ drive' = drive /\ hung' = hung
      BY <1>4, <2>1, AccelUntakenBraces DEF LineLost
    <3> QED
      BY <3>1, BracedStep
  <2>2. CASE l = "drive"
    <3>1. /\ c.wire["drive"] # <<>> /\ c' = Untaken("drive")
          /\ drive' = DriveTakes(drive, Head(c.wire["drive"])) /\ hung' = hung
      BY <1>4, <2>2 DEF LineLost
    <3>2. Braces(Untaken("drive"), c')
      BY <3>1, DriveUntaken, BracesSelf
    <3> QED
      BY <3>1, <3>2, TakenBraced
  <2> QED
    BY <2>1, <2>2 DEF Links
<1> QED
  BY <1>1, <1>2, <1>3, <1>4

\* A port breaks.
LEMMA PortBreaksBraces ==
  ASSUME RigInv, BrakeInv, NEW l \in Links, PortBreaks(l)
  PROVE  BrakeInv'
<1>1. /\ Same(c, c', {"broken"}) /\ c'.broken = c.broken \cup {l} /\ drive' = drive /\ hung' = hung
      /\ "port" \in Mishaps
  BY ControlsRigged DEF PortBreaks, Same, Typed, Fields, Befalls
<1>2. /\ c'.wire = c.wire /\ c'.up = c.up /\ c'.ticked = c.ticked
      /\ c'.moving = c.moving /\ c'.moveDir = c.moveDir /\ c'.moveAge = c.moveAge
  BY <1>1 DEF Same, Fields
<1> SUFFICES ASSUME ~hung PROVE (c'.ticked => Prompt(c')) /\ BrakeHolds(c', drive)
  BY <1>1 DEF BrakeInv, BrakeHolds, Braced, Timed, Grace, Prompt
<1>3. (c.ticked => Prompt(c)) /\ BrakeHolds(c, drive)
  BY DEF BrakeInv
<1>4. Braced(c', drive.brake, drive.on)
  BY <1>1, <1>2, <1>3 DEF BrakeHolds, Braced
<1>5. Timed(c', drive)
  <2>1. /\ Grace(c', drive.quiet) \in Nat /\ Grace(c, drive.quiet) \in Nat
        /\ Grace(c, drive.quiet) <= Grace(c', drive.quiet)
    BY <1>1, <1>2, BoardTyped DEF Grace
  <2>2. Timed(c, drive) /\ drive.on \in Nat /\ Stroke \in Nat
    BY <1>3, BoardTyped, TimesAssumption DEF BrakeHolds
  <2> QED
    BY <2>1, <2>2 DEF Timed
<1> QED
  BY <1>1, <1>2, <1>3, <1>4, <1>5 DEF BrakeHolds, Prompt

\* The brake meets something, and the board may notice.
LEMMA StallsBrace ==
  ASSUME RigInv, BrakeInv, BrakeJams \/ BrakeStalls
  PROVE  BrakeInv'
<1> SUFFICES ASSUME ~hung PROVE (c'.ticked => Prompt(c')) /\ BrakeHolds(c', drive')
  BY DEF BrakeInv, BrakeHolds, Braced, Timed, Grace, Prompt, BrakeJams, BrakeStalls
<1>1. (c.ticked => Prompt(c)) /\ BrakeHolds(c, drive)
  BY DEF BrakeInv
<1>2. drive \in DriveBoards(Horizon) /\ "drive" \in Links
  BY BoardTyped DEF Links
<1>3. CASE BrakeJams
  <2>1. /\ c' = c /\ drive'.brake = drive.brake /\ drive'.on = drive.on /\ drive'.quiet = drive.quiet
        /\ drive'.tripped = drive.tripped
    BY <1>2, <1>3 DEF BrakeJams, DriveBoards
  <2> QED
    BY <1>1, <2>1 DEF BrakeHolds, Timed
<1>4. CASE BrakeStalls
  <2> DEFINE r == Notice(drive, "brake", "STALL")
  <2>1. c' = Heard(c, "drive", r)
    BY <1>4 DEF BrakeStalls, Answer
  <2> HIDE DEF r
  <2>2. Braces(c, c')
    BY <1>2, <2>1, ControlsRigged, HeardBraces
  <2>3. drive'.brake = "stop" /\ drive'.on = 0
    BY <1>2, <1>4 DEF BrakeStalls, Stalled, SwitchBrake, DriveBoards
  <2>4. MovesOn(c.wire["drive"], "stop") => MovesOn(c.wire["drive"], drive.brake)
    BY DEF MovesOn
  <2>5. BrakeHolds(c, drive')
    BY <1>1, <2>3, <2>4 DEF BrakeHolds, Braced, Timed
  <2>6. BrakeHolds(c', drive')
    BY <2>2, <2>3, <2>5, HoldsOn
  <2> QED
    BY <1>1, <2>2, <2>6 DEF Braces
<1> QED
  BY <1>3, <1>4

\* A unit of time on the board: a brake that goes on moving has been silent for one unit
\* longer, and for no longer than the silence allows.
LEMMA DriveAgedMoves ==
  ASSUME NEW b \in DriveBoards(Horizon), b.tripped => b.brake = "stop",
         b.brake # "stop" => b.quiet <= Silence
  PROVE  LET d == DriveAged(b, Horizon)
         IN  /\ d.tripped => d.brake = "stop"
             /\ d.brake # "stop" =>
                   /\ d.brake = b.brake /\ d.quiet = b.quiet + 1 /\ d.quiet <= Silence
                   /\ d.on \in Nat /\ d.on <= b.on + 1
<1> DEFINE m == Moved(b)
           q == IF IsMoving(m) THEN Past(m.quiet, Silence) ELSE 0
           o == IF m.brake = "stop" THEN 0 ELSE Past(m.on, Horizon)
           a == [m EXCEPT !.quiet = q, !.on = o]
           d == DriveAged(b, Horizon)
<1>1. d = IF SilenceTrips(a) THEN AllOff(a) ELSE a
  BY DEF DriveAged
<1>2. /\ m.quiet = b.quiet /\ m.tripped = b.tripped /\ DOMAIN m = DOMAIN b
      /\ m.brake \in {b.brake, "stop"} /\ (m.brake # "stop" => m.on = b.on)
  BY DEF Moved, SwitchBrake, DriveBoards
<1>3. /\ b.brake \in {"stop", "apply", "release"} /\ b.quiet \in Nat /\ b.on \in Nat /\ Silence \in Nat
      /\ b.tripped \in BOOLEAN
      /\ DOMAIN b = {"brake", "steer", "on", "at", "stall", "stuck", "quiet", "tripped", "trips"}
  BY TimesAssumption, SilenceAssumption DEF DriveBoards
<1> HIDE DEF m, d
<1>4. m.brake # "stop" /\ b.quiet <= Silence => q = b.quiet + 1
  BY <1>2, <1>3 DEF Past, IsMoving
<1>5. m.brake # "stop" => o \in Nat /\ o <= b.on + 1
  BY <1>2, <1>3 DEF Past
<1> HIDE DEF q, o
<1>6. a.quiet = q /\ a.on = o /\ a.tripped = b.tripped /\ a.brake = m.brake /\ DOMAIN a = DOMAIN b
  BY <1>2, <1>3
<1> HIDE DEF a
<1>7. CASE SilenceTrips(a)
  <2>1. d.brake = "stop"
    BY <1>1, <1>3, <1>6, <1>7 DEF AllOff, SwitchBrake
  <2> QED
    BY <2>1 DEF d
<1>8. CASE ~SilenceTrips(a)
  <2>1. d = a
    BY <1>1, <1>8
  <2>2. b.tripped => a.brake = "stop"
    BY <1>2, <1>6
  <2>3. ASSUME a.brake # "stop"
        PROVE  a.brake = b.brake /\ a.quiet = b.quiet + 1 /\ a.quiet <= Silence /\ a.on \in Nat /\ a.on <= b.on + 1
    <3>1. b.brake # "stop" /\ a.brake = b.brake /\ b.quiet <= Silence
      BY <1>2, <1>6, <2>3
    <3>2. a.quiet = b.quiet + 1
      BY <1>4, <1>6, <2>3, <3>1
    <3>3. ~a.tripped /\ IsMoving(a)
      BY <1>6, <2>2, <2>3 DEF IsMoving
    <3>4. ~(a.quiet > Silence)
      BY <1>8, <3>3 DEF SilenceTrips
    <3> QED
      BY <1>3, <1>5, <1>6, <2>3, <3>1, <3>2, <3>4
  <2> QED
    BY <1>6, <2>1, <2>2, <2>3 DEF d
<1> QED
  BY <1>7, <1>8

LEMMA ControlsAgedMoves ==
  ASSUME NEW k, Typed(k), Sound(k)
  PROVE  LET d == ControlsAged(k)
         IN  /\ Typed(d) /\ d.wire = k.wire /\ d.up = k.up /\ d.broken = k.broken /\ d.ticked = FALSE
             /\ d.moving = k.moving /\ d.moveDir = k.moveDir
             /\ k.moveDir # "none" /\ k.moveAge <= Stroke => d.moveAge = k.moveAge + 1
<1> DEFINE d == ControlsAged(k)
<1>1. Typed(d) /\ d.wire = k.wire /\ d.up = k.up /\ d.broken = k.broken
  BY ControlsAgedDoes
<1>2. /\ d.ticked = FALSE /\ d.moving = k.moving /\ d.moveDir = k.moveDir
      /\ d.moveAge = IF k.moveDir = "none" THEN 0 ELSE Past(k.moveAge, Stroke)
  BY DEF ControlsAged, Typed, Fields
<1> HIDE DEF d
<1>3. k.moveAge \in Nat /\ Stroke \in Nat
  BY TimesAssumption DEF Typed, Scalars
<1>4. k.moveDir # "none" /\ k.moveAge <= Stroke => d.moveAge = k.moveAge + 1
  BY <1>2, <1>3 DEF Past
<1> QED
  BY <1>1, <1>2, <1>4 DEF d

\* A unit of time on both sides: a tick has been, so a brake that moves is within its
\* stroke, unless nothing can be written to its board.
LEMMA AgedHolds ==
  ASSUME RigInv, BrakeHolds(c, drive), Prompt(c), c.wire["drive"] = <<>>
  PROVE  BrakeHolds(ControlsAged(c), DriveAged(drive, Horizon))
<1> DEFINE k == ControlsAged(c)
           d == DriveAged(drive, Horizon)
           s == drive.brake
           t == d.brake
<1>1. /\ k.wire = c.wire /\ k.up = c.up /\ k.broken = c.broken
      /\ k.moving = c.moving /\ k.moveDir = c.moveDir
      /\ c.moveDir # "none" /\ c.moveAge <= Stroke => k.moveAge = c.moveAge + 1
  BY ControlsRigged, ControlsAgedMoves
<1>2. /\ drive.tripped => s = "stop"
      /\ Braced(c, s, drive.on) /\ Timed(c, drive)
      /\ "port" \notin Mishaps => "drive" \notin c.broken
  BY DEF BrakeHolds
<1>3. {drive.on, drive.quiet, c.moveAge, Silence, Stroke} \subseteq Nat
  BY BoardTyped, TimesAssumption, SilenceAssumption
<1>4. /\ d.tripped => t = "stop"
      /\ t # "stop" => /\ t = s /\ d.quiet = drive.quiet + 1 /\ d.quiet <= Silence
                       /\ d.on \in Nat /\ d.on <= drive.on + 1
  BY <1>2, BoardTyped, DriveAgedMoves DEF Timed
<1> HIDE DEF k, d
<1>5. ASSUME t # "stop", "drive" \notin c.broken
      PROVE  c.moving /\ d.on <= k.moveAge /\ d.on <= Stroke + 1
  <2>1. DOMAIN c.wire["drive"] = {}
    OBVIOUS
  <2>2. MovesOn(c.wire["drive"], s) /\ Unbraked(c.wire["drive"])
    BY <1>4, <1>5, <2>1 DEF MovesOn, Unbraked
  <2>3. c.moving /\ c.moveDir # "none" /\ drive.on <= c.moveAge /\ c.moveAge <= Stroke
    BY <1>2, <1>4, <1>5, <2>2 DEF Braced, Prompt
  <2> QED
    BY <1>1, <1>3, <1>4, <1>5, <2>3
<1>6. MovesOn(k.wire["drive"], t) => t # "stop"
  <2>1. DOMAIN k.wire["drive"] = {}
    BY <1>1
  <2> QED
    BY <2>1 DEF MovesOn
<1>7. Braced(k, t, d.on)
  BY <1>1, <1>2, <1>5, <1>6 DEF Braced
<1>8. Timed(k, d)
  <2> SUFFICES ASSUME t # "stop"
               PROVE  /\ d.quiet <= Silence /\ (d.on > 0 => Silence >= 1)
                      /\ d.on <= Stroke + 1 + Grace(k, d.quiet)
    BY DEF Timed
  <2>1. d.quiet \in Nat /\ d.on \in Nat /\ d.quiet >= 1 /\ Grace(k, d.quiet) \in Nat
    BY <1>3, <1>4 DEF Grace
  <2>2. CASE "drive" \notin c.broken
    BY <1>3, <1>4, <1>5, <2>1, <2>2
  <2>3. CASE "drive" \in c.broken
    <3>1. Grace(k, d.quiet) = d.quiet /\ Grace(c, drive.quiet) = drive.quiet
      BY <1>1, <2>3 DEF Grace
    <3>2. drive.on <= Stroke + 1 + drive.quiet
      BY <1>2, <1>4, <3>1 DEF Timed
    <3> QED
      BY <1>3, <1>4, <2>1, <3>1, <3>2
  <2> QED
    BY <2>2, <2>3
<1> QED
  BY <1>1, <1>2, <1>4, <1>7, <1>8 DEF BrakeHolds, k, d

LEMMA ElapseBraces ==
  ASSUME RigInv, BrakeInv, Elapse
  PROVE  BrakeInv'
<1> SUFFICES ASSUME ~hung PROVE (c'.ticked => Prompt(c')) /\ BrakeHolds(c', drive')
  BY DEF BrakeInv, BrakeHolds, Braced, Timed, Grace, Prompt, Elapse
<1> DEFINE k == ControlsAged(c)
           r == Notice(drive', "trip", "")
<1>1. "drive" \in Links /\ c.wire["drive"] = <<>> /\ c.ticked /\ drive' = DriveAged(drive, Horizon)
  BY DEF Elapse, Links
<1>2. Prompt(c) /\ BrakeHolds(c, drive)
  BY <1>1 DEF BrakeInv
<1>3. BrakeHolds(k, drive')
  BY <1>1, <1>2, AgedHolds
<1>4. c' = k \/ c' = Heard(k, "drive", r)
  BY DEF Elapse, Answer
<1>5. Typed(k) /\ k.ticked = FALSE
  BY ControlsRigged, ControlsAgedMoves
<1> HIDE DEF k, r
<1>6. Braces(k, c')
  BY <1>1, <1>4, <1>5, HeardBraces, TypedIsRigged, BracesSelf
<1>7. drive'.on \in Nat
  <2>1. drive' \in DriveBoards(Horizon)
    BY ElapseDoes DEF Good, RigInv, RigTyped, AroundTyped
  <2> QED
    BY <2>1, TimesAssumption DEF DriveBoards
<1>8. BrakeHolds(c', drive')
  BY <1>3, <1>6, <1>7, HoldsOn
<1> QED
  BY <1>5, <1>6, <1>8 DEF Braces

LEMMA NextBraces ==
  ASSUME RigInv, BrakeInv, "frame lost" \notin Mishaps, [Next]_vars
  PROVE  BrakeInv'
<1>1. CASE Next
  <2>1. ASSUME NEW cmd \in Commands, Command(cmd) PROVE BrakeInv'
    BY <2>1, CommandBraces
  <2>2. CASE CallGoesOn
    BY <2>2, CallGoesOnBraces
  <2>3. CASE EstopHeld \/ BridgeStops \/ Resume \/ HumanClears
    BY <2>3, CallsBrace
  <2>4. CASE TickRuns
    BY <2>4, TickHolds
  <2>5. ASSUME NEW l \in Links, Read(l) \/ ReaderEnds(l) \/ FrameLost(l) \/ LineLost(l) \/ PortBreaks(l)
        PROVE  BrakeInv'
    <3>1. ~FrameLost(l)
      BY DEF FrameLost, Befalls
    <3> QED
      BY <2>5, <3>1, ReadersBrace, TakingsBrace, PortBreaksBraces
  <2>6. CASE ThrottleBoardTakes \/ DriveBoardTakes \/ SignalFails
    BY <2>6, TakingsBrace
  <2>7. CASE BrakeJams \/ BrakeStalls
    BY <2>7, StallsBrace
  <2>8. CASE \E who \in Links \cup {"bridge"} : Slows(who)
    <3>1. c' = c /\ drive' = drive /\ hung' = hung
      BY <2>8 DEF Slows
    <3> QED
      BY <3>1 DEF BrakeInv, BrakeHolds, Braced, Timed, Grace, Prompt
  <2>9. CASE TickThreadHangs
    BY <2>9 DEF TickThreadHangs, BrakeInv
  <2>10. CASE Elapse
    BY <2>10, ElapseBraces
  <2> QED
    BY <1>1, <2>1, <2>2, <2>3, <2>4, <2>5, <2>6, <2>7, <2>8, <2>9, <2>10 DEF Next
<1>2. CASE UNCHANGED vars
  BY <1>2 DEF vars, BrakeInv, BrakeHolds, Braced, Timed, Grace, Prompt
<1> QED
  BY <1>1, <1>2

LEMMA InitBraces ==
  ASSUME Init
  PROVE  BrakeInv
<1> PICK place \in Places, g \in Gears :
           c = NewControls(place, g) /\ drive = NewDriveBoard(place)
  BY DEF Init
<1>1. drive.brake = "stop" /\ c.ticked = FALSE /\ c.broken = {} /\ ~c.moving
  BY DEF NewDriveBoard, NewControls
<1>2. "drive" \in Links /\ c.up["drive"] /\ c.wire["drive"] = <<>> /\ DOMAIN c.wire["drive"] = {}
  BY DEF NewControls, Links
<1>3. ~MovesOn(c.wire["drive"], drive.brake)
  BY <1>1, <1>2 DEF MovesOn
<1> QED
  BY <1>1, <1>2, <1>3 DEF BrakeInv, BrakeHolds, Braced, Timed

\* With a port that breaks, the move outlasts the stroke by the silence as well.
BrakeMoveEnds == drive.brake # "stop" /\ ~hung => drive.on <= Stroke + 1 + Silence

LEMMA BrakeInvEnds == RigInv /\ BrakeInv => BrakeMoveEnds
<1> SUFFICES ASSUME RigInv, BrakeInv, drive.brake # "stop", ~hung PROVE drive.on <= Stroke + 1 + Silence
  BY DEF BrakeMoveEnds
<1>1. drive.quiet <= Silence /\ drive.on <= Stroke + 1 + Grace(c, drive.quiet)
  BY DEF BrakeInv, BrakeHolds, Timed
<1>2. drive.on \in Nat /\ drive.quiet \in Nat /\ Silence \in Nat /\ Stroke \in Nat
  BY BoardTyped, TimesAssumption, SilenceAssumption
<1>3. Grace(c, drive.quiet) \in Nat /\ Grace(c, drive.quiet) <= drive.quiet
  BY <1>2 DEF Grace
<1> QED
  BY <1>1, <1>2, <1>3

LEMMA BrakeInvBounds == RigInv /\ BrakeInv /\ "port" \notin Mishaps => BrakeMoveIsBounded
<1> SUFFICES ASSUME RigInv, BrakeInv, "port" \notin Mishaps, drive.brake # "stop", ~hung
             PROVE  drive.on <= Stroke + Silence
  BY DEF BrakeMoveIsBounded
<1>1. drive.on > 0 => Silence >= 1
  BY DEF BrakeInv, BrakeHolds, Timed
<1>2. drive.on <= Stroke + 1 + Grace(c, drive.quiet) /\ "drive" \notin c.broken
  BY DEF BrakeInv, BrakeHolds, Timed
<1>3. drive.on \in Nat /\ Silence \in Nat /\ Stroke \in Nat
  BY BoardTyped, TimesAssumption, SilenceAssumption
<1>4. Grace(c, drive.quiet) = 0
  BY <1>2 DEF Grace
<1> QED
  BY <1>1, <1>2, <1>3, <1>4

------------------------------------------------------------------------------
(* What the rig promises.                                                     *)

\* The invariant, whatever goes wrong and however often.
THEOREM SpecRigInv == Spec => []RigInv
<1>1. Init => RigInv
  BY InitIsSound
<1>2. RigInv /\ [Next]_vars => RigInv'
  BY NextIsGood DEF Good
<1> QED
  BY <1>1, <1>2, PTL DEF Spec

\* The controls, the adapter and the boards never leave their types, and no frame is
\* ever on a wire it does not belong to.
THEOREM SpecTypeOK == Spec => []TypeOK
<1>1. RigInv => TypeOK
  <2> SUFFICES ASSUME RigInv PROVE TypeOK
    OBVIOUS
  <2>1. Typed(c) /\ Ports(c) /\ Scalars(c) /\ AroundTyped
    BY DEF RigInv, RigTyped, Typed
  <2>2. DOMAIN c = DOMAIN NewControls("between", "D")
    BY <2>1 DEF Typed, NewControls, Fields
  <2>3. ASSUME NEW l \in Links PROVE FramesOf(l) \subseteq Frames
    <3> SUFFICES ASSUME NEW f \in FramesOf(l) PROVE f \in Frames
      OBVIOUS
    <3>1. /\ f = [cmd |-> f.cmd, arg |-> f.arg]
          /\ f.cmd \in {"duty", "alive", "read", "brake", "steer", "gear", "angles"}
          /\ f.arg \in {"zero", "positive", "stop", "apply", "release", "turn", "D", "N", ""}
      BY FrameShape
    <3>2. [cmd |-> f.cmd, arg |-> f.arg] \in Frames
      BY <3>1 DEF Frames
    <3> QED
      BY <3>1, <3>2
  <2>4. ASSUME NEW l \in Links PROVE TxnsOf(l) \subseteq Txns
    <3> DEFINE C == {"duty", "alive", "read", "brake", "steer", "gear", "angles"}
               A == {"zero", "positive", "stop", "apply", "release", "turn", "D", "N", ""}
    <3>1. \A x \in C : \A y \in A : [cmd |-> x, arg |-> y] \in Frames
      BY DEF Frames
    <3>2. C \subseteq {f.cmd : f \in Frames} /\ A \subseteq {f.arg : f \in Frames}
      <4>1. ASSUME NEW x \in C PROVE x \in {f.cmd : f \in Frames}
        <5> DEFINE f == [cmd |-> x, arg |-> ""]
        <5>1. f \in Frames /\ f.cmd = x
          BY <3>1
        <5> QED
          BY <5>1
      <4>2. ASSUME NEW y \in A PROVE y \in {f.arg : f \in Frames}
        <5> DEFINE f == [cmd |-> "duty", arg |-> y]
        <5>1. f \in Frames /\ f.arg = y
          BY <3>1
        <5> QED
          BY <5>1
      <4> QED
        BY <4>1, <4>2
    <3> QED
      BY <3>2 DEF Txns, TxnsOf
  <2>5. \A l \in Links :
           /\ \A i \in DOMAIN c.wire[l] : c.wire[l][i] \in Frames
           /\ \A i \in DOMAIN c.pending[l] : c.pending[l][i] \in Txns
    <3> SUFFICES ASSUME NEW l \in Links
                 PROVE  /\ \A i \in DOMAIN c.wire[l] : c.wire[l][i] \in Frames
                        /\ \A i \in DOMAIN c.pending[l] : c.pending[l][i] \in Txns
      OBVIOUS
    <3>1. c.wire[l] \in Seq(FramesOf(l)) /\ c.pending[l] \in Seq(TxnsOf(l))
      BY <2>1 DEF Ports
    <3>2. \A i \in DOMAIN c.wire[l] : c.wire[l][i] \in FramesOf(l)
      BY <3>1
    <3>3. \A i \in DOMAIN c.pending[l] : c.pending[l][i] \in TxnsOf(l)
      BY <3>1
    <3>4. FramesOf(l) \subseteq Frames /\ TxnsOf(l) \subseteq Txns
      BY <2>3, <2>4
    <3> QED
      BY <3>2, <3>3, <3>4
  <2>6. \A l \in Links : \A i \in DOMAIN lines[l] : lines[l][i] \in Lines
    <3> SUFFICES ASSUME NEW l \in Links, NEW i \in DOMAIN lines[l] PROVE lines[l][i] \in Lines
      OBVIOUS
    <3>1. lines[l] \in Seq(LinesOf(l))
      BY <2>1 DEF AroundTyped
    <3>2. lines[l][i] \in LinesOf(l)
      BY <3>1
    <3> QED
      BY <3>2 DEF LinesOf
  <2>7. /\ c.broken \subseteq Links /\ c.up \in [Links -> BOOLEAN]
        /\ {c.duty, c.acked} \subseteq Duties
        /\ {c.timeouts, c.trips} \subseteq Nat \cup {Never}
        /\ c.moveDir \in {"none", "apply", "release"} /\ c.moveAge \in 0 .. Stroke + 1
        /\ c.stopApply \in {Never} \cup 0 .. Stroke + 1
        /\ c.steer \in {"stop", "turn"} /\ c.gear \in {"D", "N", "unknown"}
        /\ c.at \in Places /\ c.readAge \in 0 .. MaxAge + 1 /\ c.hb \in 0 .. Horizon
    BY <2>1 DEF Ports, Scalars
  <2>8. /\ adapter \in Adapters /\ call \in Calls \cup {Idle}
        /\ throttle \in ThrottleBoards /\ drive \in DriveBoards(Horizon)
        /\ reading \subseteq Links /\ slow \subseteq Links \cup {"bridge"}
        /\ hung \in BOOLEAN /\ mishaps \in 0 .. MaxMishaps
    BY <2>1 DEF AroundTyped
  <2> QED
    BY <2>2, <2>5, <2>6, <2>7, <2>8 DEF TypeOK
<1> QED
  BY <1>1, SpecRigInv, PTL

\* A fault and a stop are never apart, whichever call recorded the fault, and nothing
\* is commanded to move under either.
THEOREM SpecFaultIsStopped == Spec => []FaultIsStopped
<1>1. RigInv => FaultIsStopped
  BY DEF RigInv, Sound, FaultIsStopped
<1> QED
  BY <1>1, SpecRigInv, PTL

\* The throttle is at rest once the heartbeat's window and the board's silence have
\* passed since the bridge last commanded, with any number of lost frames, broken
\* ports and slow links, and with the tick thread hung.
THEOREM SpecThrottleRests == Spec => []ThrottleRests
<1>1. RigInv => ThrottleRests
  <2> SUFFICES ASSUME RigInv, throttle.duty = "positive" PROVE c.hb <= Heartbeat + Silence
    BY DEF ThrottleRests
  <2>1. throttle.quiet <= Silence /\ c.hb <= Heartbeat + throttle.quiet
    BY DEF RigInv, Commanded
  <2>2. throttle.quiet \in Nat /\ c.hb \in Nat /\ Silence \in Nat /\ Heartbeat \in Nat
    BY TimesAssumption, SilenceAssumption
       DEF RigInv, RigTyped, AroundTyped, Typed, Scalars, ThrottleBoards
  <2> QED
    BY <2>1, <2>2
<1> QED
  BY <1>1, SpecRigInv, PTL

\* Where no link loses a frame, the throttle and the steering are both at rest once the
\* heartbeat's window and the boards' silence have passed since the bridge last
\* commanded: however many lines are lost, ports break, links and calls are slow, the
\* brake jams and stalls, and with the tick thread hung.
THEOREM SpecSilenceRests ==
  ASSUME "frame lost" \notin Mishaps
  PROVE  Spec => []SilenceRests
<1>1. Init => RigInv /\ SteerInv
  BY InitIsSound, InitSteers
<1>2. RigInv /\ SteerInv /\ [Next]_vars => (RigInv /\ SteerInv)'
  <2> SUFFICES ASSUME RigInv, SteerInv, [Next]_vars PROVE (RigInv /\ SteerInv)'
    OBVIOUS
  <2> QED
    BY NextIsGood, NextSteers DEF Good
<1>3. RigInv /\ SteerInv => SteeringRests
  BY SteerInvRests
<1>4. Spec => []SteeringRests
  BY <1>1, <1>2, <1>3, PTL DEF Spec
<1> QED
  BY <1>4, SpecThrottleRests, PTL DEF SilenceRests

\* Where no link loses a frame and no port breaks, no move of the brake outlasts its
\* stroke by more than the board's silence while the tick thread runs: however many
\* lines are lost, links and calls are slow, sensors fail, and the brake jams and stalls.
THEOREM SpecBrakeMoveIsBounded ==
  ASSUME "frame lost" \notin Mishaps, "port" \notin Mishaps
  PROVE  Spec => []BrakeMoveIsBounded
<1>1. Init => RigInv /\ BrakeInv
  BY InitIsSound, InitBraces
<1>2. RigInv /\ BrakeInv /\ [Next]_vars => (RigInv /\ BrakeInv)'
  <2> SUFFICES ASSUME RigInv, BrakeInv, [Next]_vars PROVE (RigInv /\ BrakeInv)'
    OBVIOUS
  <2> QED
    BY NextIsGood, NextBraces DEF Good
<1>3. RigInv /\ BrakeInv => BrakeMoveIsBounded
  BY BrakeInvBounds
<1> QED
  BY <1>1, <1>2, <1>3, PTL DEF Spec

\* Nor, where ports may break as well, by more than a unit of time and that silence.
THEOREM SpecBrakeMoveEnds ==
  ASSUME "frame lost" \notin Mishaps
  PROVE  Spec => []BrakeMoveEnds
<1>1. Init => RigInv /\ BrakeInv
  BY InitIsSound, InitBraces
<1>2. RigInv /\ BrakeInv /\ [Next]_vars => (RigInv /\ BrakeInv)'
  <2> SUFFICES ASSUME RigInv, BrakeInv, [Next]_vars PROVE (RigInv /\ BrakeInv)'
    OBVIOUS
  <2> QED
    BY NextIsGood, NextBraces DEF Good
<1>3. RigInv /\ BrakeInv => BrakeMoveEnds
  BY BrakeInvEnds
<1> QED
  BY <1>1, <1>2, <1>3, PTL DEF Spec

\* A stop starts the brake once in its episode, however many stops, faults and held
\* estop frames follow, unless the operator presses it.
THEOREM SpecStopAppliesOnce == Spec => StopAppliesOnce
<1>1. RigInv /\ [Next]_vars =>
        [c.stopApply # Never /\ ~Resume /\ ~HumanClears =>
          \A i \in DOMAIN c'.wire["drive"] :
             i > Len(c.wire["drive"]) /\ c'.wire["drive"][i].arg = "apply" => Pressed]_vars
  BY NextIsGood DEF Good, NoStart
<1> QED
  BY <1>1, SpecRigInv, PTL DEF Spec, StopAppliesOnce

==============================================================================
