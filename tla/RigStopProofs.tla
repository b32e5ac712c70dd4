---------------------------- MODULE RigStopProofs ----------------------------
(***************************************************************************)
(* What the rig of ugv-01 promises of its stops and starts where nothing   *)
(* is slow, on the invariant of RigProofs and in the same manner: a lemma  *)
(* for each operator, and one that joins the actions.                      *)
(*                                                                         *)
(* First the acknowledged stop: XSettles and XStands say that after X what *)
(* a stop is owed still stands (its order on the wire, its transaction     *)
(* first in line, or the board at rest), and NextAcks joins the actions.   *)
(*                                                                         *)
(* Then the start that waits for its release: XFrees says that X neither   *)
(* starts the throttle nor takes the brake to be free, XKeeps that it      *)
(* takes it to be free only as before, XTells what a reply may change of   *)
(* that, and NextStarts joins the actions.                                 *)
(***************************************************************************)
EXTENDS RigProofs

------------------------------------------------------------------------------
(* An acknowledged stop, without a slow link: what a stop is owed.             *)

\* The frame of each link that takes what its board holds from rest, and its kind.
GoFrame(l) == IF l = "accel" THEN Frame("duty", "positive") ELSE SteerTurn
Kin(l) == GoFrame(l).cmd

Going(w, l) == \E i \in DOMAIN w : w[i] = GoFrame(l)

\* The first of this kind that waits for its answer is not a stop's.
Led(p, l) ==
    \E m \in DOMAIN p :
        /\ p[m].cmd = Kin(l)
        /\ \A n \in DOMAIN p : p[n].cmd = Kin(l) /\ "stop" \in p[n].marks => n > m

\* What goes is the first of its kind on the wire, and its answer the first that comes.
Ahead(w, p, l) ==
    Going(w, l) =>
        /\ Led(p, l)
        /\ \A i \in DOMAIN w : w[i] = GoFrame(l) => \A j \in DOMAIN w : j < i => w[j].cmd # Kin(l)

Held(p, l) == \E n \in DOMAIN p : p[n].cmd = Kin(l) /\ "stop" \in p[n].marks

\* Under a stop, a board that is not at rest (b), or that will be told to go, still owes
\* the stop its answer, or the stop is not whole.
Stood(k, l, b) == k.stopped /\ (b \/ Going(k.wire[l], l)) => ~k.whole \/ Held(k.pending[l], l)

Unheld(k) ==
    ~k.stopped => \A l \in Links : \A n \in DOMAIN k.pending[l] : "stop" \notin k.pending[l][n].marks

Calmed(k) == \A l \in Links : ~Going(k.wire[l], l)
Ordered(k) == \A l \in Links : Ahead(k.wire[l], k.pending[l], l)
Stands(k, on) == Ordered(k) /\ Unheld(k) /\ \A l \in Links : Stood(k, l, on[l])

\* As much of Typed as the argument needs.
Wired(k) ==
    /\ DOMAIN k = Fields /\ DOMAIN k.wire = Links /\ DOMAIN k.pending = Links
    /\ \A l \in Links : k.wire[l] \in Seq(FramesOf(l)) /\ k.pending[l] \in Seq(TxnsOf(l))

\* d comes from k by a step that takes nothing from rest and keeps the order.
Follows(k, d) ==
    /\ Wired(d) /\ (Ordered(k) => Ordered(d))
    /\ \A l \in Links : Going(d.wire[l], l) => Going(k.wire[l], l)

\* It stands as well wherever k did.
Settles(k, d) == Follows(k, d) /\ \A on : Stands(k, on) => Stands(d, on)

LEMMA TypedIsWired ==
  ASSUME NEW k, Typed(k)
  PROVE  Wired(k)
BY DEF Typed, Ports, Wired

LEMMA SettlesTwice ==
  ASSUME NEW a, NEW b, NEW d, Settles(a, b), Settles(b, d)
  PROVE  Settles(a, d)
BY DEF Settles, Follows

LEMMA SettlesSelf ==
  ASSUME NEW k, Wired(k)
  PROVE  Settles(k, k) /\ Follows(k, k)
BY DEF Settles, Follows

LEMMA FollowsTwice ==
  ASSUME NEW a, NEW b, NEW d, Follows(a, b), Follows(b, d)
  PROVE  Follows(a, d) /\ Wired(d)
BY DEF Follows

LEMMA KinIs ==
  ASSUME NEW l \in Links
  PROVE  /\ Kin(l) = IF l = "accel" THEN "duty" ELSE "steer"
         /\ GoFrame(l) \in FramesOf(l) /\ GoFrame(l).cmd = Kin(l)
BY DEF Kin, GoFrame, Frame, SteerTurn, FramesOf, AccelFrames, DriveFrames, Duties, Links

\* Another frame behind, with its transaction.
LEMMA AppendedOrder ==
  ASSUME NEW l \in Links, NEW v \in Seq(FramesOf(l)), NEW f, f # GoFrame(l),
         NEW p \in Seq(TxnsOf(l)), NEW t
  PROVE  /\ Going(Append(v, f), l) => Going(v, l)
         /\ Ahead(v, p, l) => Ahead(Append(v, f), Append(p, t), l)
         /\ Held(p, l) => Held(Append(p, t), l)
<1> DEFINE w == Append(v, f)
           q == Append(p, t)
<1>1. /\ DOMAIN v = 1 .. Len(v) /\ Len(v) \in Nat /\ DOMAIN w = 1 .. Len(v) + 1 /\ w[Len(v) + 1] = f
      /\ \A i \in 1 .. Len(v) : w[i] = v[i]
  BY Appended
<1>2. /\ DOMAIN p = 1 .. Len(p) /\ Len(p) \in Nat /\ DOMAIN q = 1 .. Len(p) + 1 /\ q[Len(p) + 1] = t
      /\ \A i \in 1 .. Len(p) : q[i] = p[i]
  BY Appended
<1> HIDE DEF w, q
<1>3. ASSUME NEW i \in DOMAIN w, w[i] = GoFrame(l)
      PROVE  i \in DOMAIN v /\ v[i] = GoFrame(l)
  BY <1>1, <1>3
<1>4. Going(w, l) => Going(v, l)
  BY <1>3 DEF Going
<1>5. Led(p, l) => Led(q, l)
  <2> SUFFICES ASSUME NEW m \in DOMAIN p, p[m].cmd = Kin(l),
                      \A n \in DOMAIN p : p[n].cmd = Kin(l) /\ "stop" \in p[n].marks => n > m
               PROVE  Led(q, l)
    BY DEF Led
  <2>1. m \in DOMAIN q /\ q[m].cmd = Kin(l)
    BY <1>2
  <2>2. ASSUME NEW n \in DOMAIN q, q[n].cmd = Kin(l), "stop" \in q[n].marks PROVE n > m
    <3>1. CASE n \in DOMAIN p
      BY <1>2, <2>2, <3>1
    <3>2. CASE n = Len(p) + 1
      BY <1>2, <3>2
    <3> QED
      BY <1>2, <3>1, <3>2
  <2> QED
    BY <2>1, <2>2 DEF Led
<1>6. Ahead(v, p, l) => Ahead(w, q, l)
  <2> SUFFICES ASSUME Ahead(v, p, l), Going(w, l)
               PROVE  /\ Led(q, l)
                      /\ \A i \in DOMAIN w : w[i] = GoFrame(l) =>
                            \A j \in DOMAIN w : j < i => w[j].cmd # Kin(l)
    BY DEF Ahead
  <2>1. /\ Led(p, l)
        /\ \A i \in DOMAIN v : v[i] = GoFrame(l) => \A j \in DOMAIN v : j < i => v[j].cmd # Kin(l)
    BY <1>4 DEF Ahead
  <2>2. ASSUME NEW i \in DOMAIN w, w[i] = GoFrame(l), NEW j \in DOMAIN w, j < i
        PROVE  w[j].cmd # Kin(l)
    <3>1. i \in DOMAIN v /\ v[i] = GoFrame(l)
      BY <1>3, <2>2
    <3>2. j \in DOMAIN v /\ w[j] = v[j]
      BY <1>1, <2>2, <3>1
    <3> QED
      BY <2>1, <2>2, <3>1, <3>2
  <2> QED
    BY <1>5, <2>1, <2>2
<1>7. Held(p, l) => Held(q, l)
  BY <1>2 DEF Held
<1> QED
  BY <1>4, <1>6, <1>7 DEF w, q

\* Marks taken off.
LEMMA UnmarkedOrder ==
  ASSUME NEW l \in Links, NEW w, NEW p, NEW q, DOMAIN q = DOMAIN p,
         \A n \in DOMAIN p : q[n].cmd = p[n].cmd /\ ("stop" \in q[n].marks => "stop" \in p[n].marks)
  PROVE  Ahead(w, p, l) => Ahead(w, q, l)
BY DEF Ahead, Led

LEMMA RestIs ==
  ASSUME NEW S, NEW p \in Seq(S), NEW j \in Nat, 1 <= j, j <= Len(p) + 1, NEW b, b = SubSeq(p, j, Len(p))
  PROVE  /\ b \in Seq(S) /\ Len(b) = Len(p) - j + 1
         /\ \A n \in 1 .. Len(p) - j + 1 : b[n] = p[j + n - 1]
<1>1. j \in Int /\ Len(p) \in Int /\ Len(p) \in Nat /\ \A n \in j .. Len(p) : p[n] \in S
  OBVIOUS
<1>2. /\ SubSeq(p, j, Len(p)) \in Seq(S)
      /\ Len(SubSeq(p, j, Len(p))) = IF j <= Len(p) THEN Len(p) - j + 1 ELSE 0
      /\ \A n \in 1 .. Len(p) - j + 1 : SubSeq(p, j, Len(p))[n] = p[j + n - 1]
  BY <1>1, SubSeqProperties
<1>3. Len(b) = IF j <= Len(p) THEN Len(p) - j + 1 ELSE 0
  BY <1>2
<1>4. Len(b) = Len(p) - j + 1
  BY <1>1, <1>3
<1> QED
  BY <1>2, <1>4

LEMMA RemovedIs ==
  ASSUME NEW S, NEW p \in Seq(S), NEW i \in 1 .. Len(p)
  PROVE  LET q == RemoveAt(p, i)
         IN  /\ Len(p) \in Nat /\ DOMAIN p = 1 .. Len(p) /\ DOMAIN q = 1 .. Len(p) - 1
             /\ \A n \in DOMAIN q : q[n] = IF n < i THEN p[n] ELSE p[n + 1]
<1> DEFINE a == SubSeq(p, 1, i - 1)
           b == SubSeq(p, i + 1, Len(p))
           q == RemoveAt(p, i)
<1>0. Len(p) \in Nat /\ DOMAIN p = 1 .. Len(p) /\ \A n \in 1 .. Len(p) : p[n] \in S
  OBVIOUS
<1>1. a \in Seq(S) /\ Len(a) = i - 1 /\ \A n \in 1 .. i - 1 : a[n] = p[n]
  BY <1>0, SubSeqProperties
<1>2. b \in Seq(S) /\ Len(b) = Len(p) - i /\ \A n \in 1 .. Len(p) - i : b[n] = p[n + i]
  <2>1. i + 1 \in Nat /\ 1 <= i + 1 /\ i + 1 <= Len(p) + 1
    BY <1>0
  <2>2. b = SubSeq(p, i + 1, Len(p))
    OBVIOUS
  <2> HIDE DEF b
  <2>3. /\ b \in Seq(S) /\ Len(b) = Len(p) - (i + 1) + 1
        /\ \A n \in 1 .. Len(p) - (i + 1) + 1 : b[n] = p[(i + 1) + n - 1]
    BY <2>1, <2>2, RestIs
  <2>4. Len(p) - (i + 1) + 1 = Len(p) - i /\ \A n \in 1 .. Len(p) - i : (i + 1) + n - 1 = n + i
    BY <1>0
  <2> QED
    BY <2>3, <2>4
<1>3. q = a \o b
  BY DEF RemoveAt
<1> HIDE DEF a, b
<1>4. /\ Len(q) = Len(p) - 1 /\ q \in Seq(S)
      /\ \A n \in 1 .. Len(p) - 1 : q[n] = IF n <= i - 1 THEN a[n] ELSE b[n - (i - 1)]
  <2>1. /\ q \in Seq(S) /\ Len(q) = Len(a) + Len(b)
        /\ \A n \in 1 .. Len(a) + Len(b) : q[n] = IF n <= Len(a) THEN a[n] ELSE b[n - Len(a)]
    <3>1. a \in Seq(S) /\ b \in Seq(S)
      BY <1>1, <1>2
    <3> HIDE DEF q
    <3> QED
      BY <1>3, <3>1, ConcatProperties, Zenon
  <2>2. Len(a) + Len(b) = Len(p) - 1
    BY <1>0, <1>1, <1>2
  <2> HIDE DEF q
  <2> QED
    BY <1>1, <2>1, <2>2
<1> HIDE DEF q
<1>5. DOMAIN q = 1 .. Len(p) - 1
  BY <1>4
<1>6. ASSUME NEW n \in 1 .. Len(p) - 1 PROVE q[n] = IF n < i THEN p[n] ELSE p[n + 1]
  <2>1. CASE n < i
    BY <1>0, <1>1, <1>4, <2>1
  <2>2. CASE ~(n < i)
    <3>1. n - (i - 1) \in 1 .. Len(p) - i /\ n - (i - 1) + i = n + 1
      BY <1>0, <2>2
    <3>2. b[n - (i - 1)] = p[n + 1]
      BY <1>2, <3>1
    <3> QED
      BY <1>0, <1>4, <2>2, <3>2
  <2> QED
    BY <2>1, <2>2
<1> QED
  BY <1>0, <1>5, <1>6 DEF q

\* An answered frame gone, of another kind, or the first of a kind that a stop's does not lead.
LEMMA RemovedOrder ==
  ASSUME NEW l \in Links, NEW p \in Seq(TxnsOf(l)), NEW i \in 1 .. Len(p)
  PROVE  LET q == RemoveAt(p, i)
         IN  /\ p[i].cmd # Kin(l) => /\ Led(p, l) => Led(q, l)
                                     /\ Held(p, l) => Held(q, l)
             /\ Led(p, l) /\ (\A n \in DOMAIN p : p[n].cmd = Kin(l) => i <= n) /\ Held(p, l) => Held(q, l)
             /\ \A n \in DOMAIN q : \E m \in DOMAIN p : q[n] = p[m]
<1> DEFINE q == RemoveAt(p, i)
           at(n) == IF n < i THEN n ELSE n - 1
<1>1. /\ Len(p) \in Nat /\ DOMAIN p = 1 .. Len(p) /\ DOMAIN q = 1 .. Len(p) - 1
      /\ \A n \in DOMAIN q : q[n] = IF n < i THEN p[n] ELSE p[n + 1]
  BY RemovedIs
<1> HIDE DEF q
<1>2. ASSUME NEW n \in DOMAIN p, n # i
      PROVE  at(n) \in DOMAIN q /\ q[at(n)] = p[n]
  <2>1. CASE n < i
    BY <1>1, <2>1
  <2>2. CASE n > i
    BY <1>1, <2>2
  <2> QED
    BY <1>1, <1>2, <2>1, <2>2
<1>3. ASSUME NEW n \in DOMAIN q
      PROVE  \E m \in DOMAIN p : q[n] = p[m] /\ m # i /\ n = at(m)
  <2>1. CASE n < i
    BY <1>1, <2>1
  <2>2. CASE ~(n < i)
    <3>1. n + 1 \in DOMAIN p /\ q[n] = p[n + 1] /\ n + 1 # i /\ at(n + 1) = n
      BY <1>1, <2>2
    <3> QED
      BY <3>1
  <2> QED
    BY <2>1, <2>2
<1>4. ASSUME NEW m \in DOMAIN p, NEW n \in DOMAIN p, m # i, n # i, n > m PROVE at(n) > at(m)
  BY <1>1, <1>4
<1> HIDE DEF at
<1>5. ASSUME p[i].cmd # Kin(l), Led(p, l) PROVE Led(q, l)
  <2>1. PICK m \in DOMAIN p : /\ p[m].cmd = Kin(l)
                              /\ \A n \in DOMAIN p : p[n].cmd = Kin(l) /\ "stop" \in p[n].marks => n > m
    BY <1>5 DEF Led
  <2>2. m # i
    BY <1>5, <2>1
  <2>3. at(m) \in DOMAIN q /\ q[at(m)].cmd = Kin(l)
    BY <1>2, <2>1, <2>2
  <2>4. ASSUME NEW n \in DOMAIN q, q[n].cmd = Kin(l), "stop" \in q[n].marks PROVE n > at(m)
    <3>1. PICK o \in DOMAIN p : q[n] = p[o] /\ o # i /\ n = at(o)
      BY <1>3
    <3>2. o > m
      BY <2>1, <2>4, <3>1
    <3> QED
      BY <1>4, <2>2, <3>1, <3>2
  <2> QED
    BY <2>3, <2>4 DEF Led
<1>6. ASSUME NEW n \in DOMAIN p, n # i, p[n].cmd = Kin(l), "stop" \in p[n].marks PROVE Held(q, l)
  BY <1>2, <1>6 DEF Held
<1>7. p[i].cmd # Kin(l) /\ Held(p, l) => Held(q, l)
  BY <1>6 DEF Held
<1>8. ASSUME Led(p, l), \A n \in DOMAIN p : p[n].cmd = Kin(l) => i <= n, Held(p, l) PROVE Held(q, l)
  <2>1. PICK m \in DOMAIN p : /\ p[m].cmd = Kin(l)
                              /\ \A n \in DOMAIN p : p[n].cmd = Kin(l) /\ "stop" \in p[n].marks => n > m
    BY <1>8 DEF Led
  <2>2. PICK n \in DOMAIN p : p[n].cmd = Kin(l) /\ "stop" \in p[n].marks
    BY <1>8 DEF Held
  <2>3. n > m /\ i <= m
    BY <1>8, <2>1, <2>2
  <2>4. n # i
    BY <1>1, <2>3
  <2> QED
    BY <1>6, <2>2, <2>4
<1>9. \A n \in DOMAIN q : \E m \in DOMAIN p : q[n] = p[m]
  BY <1>3
<1> QED
  BY <1>5, <1>7, <1>8, <1>9 DEF q

------------------------------------------------------------------------------
(* The controls' own methods, and what a stop is owed.                        *)

Core == {"wire", "pending", "stopped", "whole"}

LEMMA TouchSettles ==
  ASSUME NEW k, Wired(k), NEW X, X \cap Core = {}, NEW d, Same(k, d, X)
  PROVE  /\ Settles(k, d) /\ Wired(d)
         /\ d.wire = k.wire /\ d.pending = k.pending /\ d.stopped = k.stopped /\ d.whole = k.whole
<1>1. d.wire = k.wire /\ d.pending = k.pending /\ d.stopped = k.stopped /\ d.whole = k.whole
  BY DEF Same, Core, Fields
<1>2. Wired(d)
  BY <1>1 DEF Wired, Same
<1>3. Settles(k, d)
  BY <1>1, <1>2 DEF Settles, Follows, Ordered, Stands, Unheld, Stood
<1> QED
  BY <1>1, <1>2, <1>3

LEMMA UnmarkedWires ==
  ASSUME NEW k, Wired(k), NEW mark
  PROVE  LET d == Unmarked(k, mark)
         IN  /\ Wired(d) /\ d.wire = k.wire /\ Same(k, d, {"pending"})
             /\ \A l \in Links :
                   /\ DOMAIN d.pending[l] = DOMAIN k.pending[l]
                   /\ \A n \in DOMAIN k.pending[l] :
                         /\ d.pending[l][n].cmd = k.pending[l][n].cmd
                         /\ d.pending[l][n].marks = k.pending[l][n].marks \ {mark}
             /\ Follows(k, d)
<1> DEFINE d == Unmarked(k, mark)
<1>1. /\ DOMAIN k = Fields /\ DOMAIN k.wire = Links /\ DOMAIN k.pending = Links
      /\ \A l \in Links : k.wire[l] \in Seq(FramesOf(l)) /\ k.pending[l] \in Seq(TxnsOf(l))
  BY DEF Wired
<1>2. /\ Same(k, d, {"pending"})
      /\ d.pending = [l \in Links |->
            [i \in DOMAIN k.pending[l] |-> [k.pending[l][i] EXCEPT !.marks = @ \ {mark}]]]
  BY <1>1 DEF Unmarked, Same, Fields
<1>3. d.wire = k.wire /\ DOMAIN d = Fields
  BY <1>2 DEF Same, Fields
<1> HIDE DEF d
<1>4. ASSUME NEW l \in Links
      PROVE  /\ d.pending[l] \in Seq(TxnsOf(l))
             /\ DOMAIN d.pending[l] = DOMAIN k.pending[l]
             /\ \A n \in DOMAIN k.pending[l] :
                   /\ d.pending[l][n].cmd = k.pending[l][n].cmd
                   /\ d.pending[l][n].marks = k.pending[l][n].marks \ {mark}
  <2> DEFINE p == k.pending[l]
             q == [i \in DOMAIN p |-> [p[i] EXCEPT !.marks = @ \ {mark}]]
  <2>1. p \in Seq(TxnsOf(l)) /\ d.pending[l] = q
    BY <1>1, <1>2
  <2> HIDE DEF p
  <2>2. ASSUME NEW n \in DOMAIN p
        PROVE  q[n] \in TxnsOf(l) /\ q[n].cmd = p[n].cmd /\ q[n].marks = p[n].marks \ {mark}
    <3>1. p[n] \in TxnsOf(l)
      BY <2>1
    <3>2. /\ p[n] \in [cmd : {"duty", "alive", "read", "brake", "steer", "gear", "angles"},
                       arg : {"zero", "positive", "stop", "apply", "release", "turn", "D", "N", ""},
                       age : 0 .. Reply + 1, marks : SUBSET Marks]
          /\ [cmd |-> p[n].cmd, arg |-> p[n].arg] \in FramesOf(l)
      BY <3>1 DEF TxnsOf
    <3>3. q[n] = [p[n] EXCEPT !.marks = @ \ {mark}]
      OBVIOUS
    <3> HIDE DEF q
    <3>4. /\ q[n] \in [cmd : {"duty", "alive", "read", "brake", "steer", "gear", "angles"},
                       arg : {"zero", "positive", "stop", "apply", "release", "turn", "D", "N", ""},
                       age : 0 .. Reply + 1, marks : SUBSET Marks]
          /\ q[n].cmd = p[n].cmd /\ q[n].arg = p[n].arg /\ q[n].marks = p[n].marks \ {mark}
      BY <3>2, <3>3
    <3> QED
      BY <3>2, <3>4 DEF TxnsOf
  <2>3. DOMAIN p = 1 .. Len(p) /\ Len(p) \in Nat /\ DOMAIN q = DOMAIN p
    BY <2>1
  <2> HIDE DEF q
  <2>4. q \in Seq(TxnsOf(l))
    <3>1. \A n \in 1 .. Len(p) : q[n] \in TxnsOf(l)
      BY <2>2, <2>3
    <3>2. q = [n \in 1 .. Len(p) |-> q[n]]
      BY <2>3 DEF q
    <3> QED
      BY <2>3, <3>1, <3>2
  <2> QED
    BY <2>1, <2>2, <2>3, <2>4 DEF p
<1>5. Wired(d)
  BY <1>1, <1>2, <1>3, <1>4 DEF Wired
<1>6. Ordered(k) => Ordered(d)
  BY <1>3, <1>4, UnmarkedOrder DEF Ordered
<1>7. Follows(k, d)
  BY <1>3, <1>5, <1>6 DEF Follows
<1> QED
  BY <1>2, <1>3, <1>4, <1>5, <1>7 DEF d

\* Every mark but a stop's is as good as none.
LEMMA UnmarkedSettles ==
  ASSUME NEW k, Wired(k), NEW mark, mark # "stop"
  PROVE  Settles(k, Unmarked(k, mark))
<1> DEFINE d == Unmarked(k, mark)
<1>1. /\ Wired(d) /\ d.wire = k.wire /\ Same(k, d, {"pending"})
      /\ \A l \in Links :
            /\ DOMAIN d.pending[l] = DOMAIN k.pending[l]
            /\ \A n \in DOMAIN k.pending[l] :
                  /\ d.pending[l][n].cmd = k.pending[l][n].cmd
                  /\ d.pending[l][n].marks = k.pending[l][n].marks \ {mark}
      /\ Follows(k, d)
  BY UnmarkedWires
<1> HIDE DEF d
<1>2. d.stopped = k.stopped /\ d.whole = k.whole
  BY <1>1 DEF Same, Fields
<1>3. Unheld(k) => Unheld(d)
  BY <1>1, <1>2 DEF Unheld
<1>4. \A l \in Links : Held(k.pending[l], l) => Held(d.pending[l], l)
  BY <1>1 DEF Held
<1>5. \A l \in Links : \A b : Stood(k, l, b) => Stood(d, l, b)
  BY <1>1, <1>2, <1>4 DEF Stood
<1>6. \A on : Stands(k, on) => Stands(d, on)
  BY <1>1, <1>3, <1>5 DEF Stands, Follows
<1> QED
  BY <1>1, <1>6 DEF Settles, d

\* What WriteInStop does to the queues.
LEMMA WriteInStopAdds ==
  ASSUME NEW k, Wired(k), NEW l \in Links, NEW cmd, NEW arg, Frame(cmd, arg) \in FramesOf(l),
         NEW marks \in SUBSET Marks
  PROVE  LET d == WriteInStop(k, l, cmd, arg, marks)
             t == [cmd |-> cmd, arg |-> arg, age |-> 0, marks |-> marks]
         IN  /\ Wired(d)
             /\ IF Goes(k, l)
                THEN /\ Same(k, d, {"wire", "pending"})
                     /\ \A m \in Links :
                           /\ d.wire[m] = IF m = l THEN Append(k.wire[m], Frame(cmd, arg)) ELSE k.wire[m]
                           /\ d.pending[m] = IF m = l THEN Append(k.pending[m], t) ELSE k.pending[m]
                ELSE Same(k, d, {"up", "faulted"})
<1> DEFINE f == Frame(cmd, arg)
           t == [cmd |-> cmd, arg |-> arg, age |-> 0, marks |-> marks]
           d == WriteInStop(k, l, cmd, arg, marks)
<1>1. /\ DOMAIN k = Fields /\ DOMAIN k.wire = Links /\ DOMAIN k.pending = Links
      /\ \A m \in Links : k.wire[m] \in Seq(FramesOf(m)) /\ k.pending[m] \in Seq(TxnsOf(m))
  BY DEF Wired
<1>0. f.cmd = cmd /\ f.arg = arg /\ f \in FramesOf(l)
  BY DEF Frame
<1>2. t \in TxnsOf(l)
  <2>1. 0 \in 0 .. Reply + 1
    BY TimesAssumption
  <2>2. [cmd |-> t.cmd, arg |-> t.arg] \in FramesOf(l)
    BY DEF Frame
  <2> QED
    BY <1>0, <2>1, <2>2, FrameShape DEF TxnsOf
<1>3. f = [cmd |-> cmd, arg |-> arg] /\ f \in FramesOf(l)
  BY DEF Frame
<1> HIDE DEF f, t
<1>4. CASE Goes(k, l)
  <2>1. d = [k EXCEPT !.wire[l] = Append(@, f), !.pending[l] = Append(@, t)]
    BY <1>3, <1>4 DEF WriteInStop, t
  <2> HIDE DEF d
  <2>2. /\ Same(k, d, {"wire", "pending"})
        /\ d.wire = [k.wire EXCEPT ![l] = Append(@, f)] /\ d.pending = [k.pending EXCEPT ![l] = Append(@, t)]
    BY <1>1, <2>1 DEF Same, Fields
  <2>3. \A m \in Links :
           /\ d.wire[m] = IF m = l THEN Append(k.wire[m], f) ELSE k.wire[m]
           /\ d.pending[m] = IF m = l THEN Append(k.pending[m], t) ELSE k.pending[m]
    BY <1>1, <2>2
  <2>4. ASSUME NEW m \in Links PROVE d.wire[m] \in Seq(FramesOf(m)) /\ d.pending[m] \in Seq(TxnsOf(m))
    <3>1. k.wire[m] \in Seq(FramesOf(m)) /\ k.pending[m] \in Seq(TxnsOf(m))
      BY <1>1
    <3>2. CASE m = l
      <4>1. d.wire[m] = Append(k.wire[m], f) /\ d.pending[m] = Append(k.pending[m], t)
        BY <2>3, <3>2
      <4>2. f \in FramesOf(m) /\ t \in TxnsOf(m)
        BY <1>2, <1>3, <3>2
      <4> QED
        BY <3>1, <4>1, <4>2
    <3>3. CASE m # l
      BY <2>3, <3>1, <3>3
    <3> QED
      BY <3>2, <3>3
  <2>5. Wired(d)
    BY <1>1, <2>2, <2>4 DEF Wired, Same
  <2> QED
    BY <1>4, <2>2, <2>3, <2>5 DEF d, f, t
<1>5. CASE ~Goes(k, l)
  <2>1. d \in {[k EXCEPT !.up[l] = FALSE, !.faulted = TRUE], k}
    BY <1>5 DEF WriteInStop
  <2> HIDE DEF d
  <2>2. Same(k, d, {"up", "faulted"})
    BY <1>1, <2>1 DEF Same, Fields
  <2>3. {"up", "faulted"} \cap Core = {}
    BY DEF Core
  <2>4. Wired(d)
    BY <2>2, <2>3, TouchSettles
  <2> QED
    BY <1>5, <2>2, <2>4 DEF d
<1> QED
  BY <1>4, <1>5

\* The stop, if there is one, is as whole and as well remembered as before.
Adds(k, d) ==
    /\ Follows(k, d) /\ d.stopped = k.stopped /\ d.whole = k.whole /\ d.broken = k.broken
    /\ \A l \in Links : Held(k.pending[l], l) => Held(d.pending[l], l)
    /\ AllGo(k) => d.up = k.up

LEMMA AddsTwice ==
  ASSUME NEW a, NEW b, NEW d, Adds(a, b), Adds(b, d)
  PROVE  Adds(a, d)
<1>1. AllGo(a) => AllGo(b)
  BY DEF Adds, AllGo, Goes
<1> QED
  BY <1>1 DEF Adds, Follows

LEMMA AddsSettles ==
  ASSUME NEW k, NEW d, Adds(k, d), Unheld(k) => Unheld(d)
  PROVE  Settles(k, d)
<1>1. \A l \in Links : \A b : Stood(k, l, b) => Stood(d, l, b)
  BY DEF Adds, Follows, Stood
<1>2. \A on : Stands(k, on) => Stands(d, on)
  BY <1>1 DEF Stands, Adds, Follows
<1> QED
  BY <1>2 DEF Settles, Adds

\* A touch of nothing of the stop's, and of no link.
LEMMA TouchAdds ==
  ASSUME NEW k, Wired(k), NEW X, X \cap Core = {}, "up" \notin X, "broken" \notin X, NEW d, Same(k, d, X)
  PROVE  Adds(k, d)
<1>1. d.up = k.up /\ d.broken = k.broken
  BY DEF Same, Fields
<1>2. Settles(k, d) /\ d.pending = k.pending /\ d.stopped = k.stopped /\ d.whole = k.whole
  BY TouchSettles
<1> QED
  BY <1>1, <1>2 DEF Adds, Settles

\* Any frame that takes nothing from rest.
LEMMA WriteInStopFollows ==
  ASSUME NEW k, Wired(k), NEW l \in Links, NEW cmd, NEW arg, Frame(cmd, arg) \in FramesOf(l),
         Frame(cmd, arg) # GoFrame(l), NEW marks \in SUBSET Marks
  PROVE  LET d == WriteInStop(k, l, cmd, arg, marks)
         IN  /\ Adds(k, d)
             /\ AllGo(k) /\ cmd = Kin(l) /\ "stop" \in marks => Held(d.pending[l], l)
             /\ "stop" \notin marks => Settles(k, d)
<1> DEFINE f == Frame(cmd, arg)
           t == [cmd |-> cmd, arg |-> arg, age |-> 0, marks |-> marks]
           d == WriteInStop(k, l, cmd, arg, marks)
<1>1. /\ Wired(d)
      /\ IF Goes(k, l)
         THEN /\ Same(k, d, {"wire", "pending"})
              /\ \A m \in Links :
                    /\ d.wire[m] = IF m = l THEN Append(k.wire[m], f) ELSE k.wire[m]
                    /\ d.pending[m] = IF m = l THEN Append(k.pending[m], t) ELSE k.pending[m]
         ELSE Same(k, d, {"up", "faulted"})
  BY WriteInStopAdds
<1>2. \A m \in Links : k.wire[m] \in Seq(FramesOf(m)) /\ k.pending[m] \in Seq(TxnsOf(m))
  BY DEF Wired
<1>3. f # GoFrame(l)
  OBVIOUS
<1>4. t.cmd = cmd /\ t.marks = marks
  OBVIOUS
<1> HIDE DEF d, f, t
<1>5. CASE ~Goes(k, l)
  <2>1. {"up", "faulted"} \cap Core = {}
    BY DEF Core
  <2>2. Settles(k, d) /\ d.stopped = k.stopped /\ d.whole = k.whole /\ d.pending = k.pending
    BY <1>1, <1>5, <2>1, TouchSettles
  <2>3. d.broken = k.broken
    BY <1>1, <1>5 DEF Same, Fields
  <2>4. ~AllGo(k)
    BY <1>5 DEF AllGo
  <2> QED
    BY <2>2, <2>3, <2>4 DEF d, Adds, Settles
<1>6. CASE Goes(k, l)
  <2>1. /\ Same(k, d, {"wire", "pending"})
        /\ \A m \in Links :
              /\ d.wire[m] = IF m = l THEN Append(k.wire[m], f) ELSE k.wire[m]
              /\ d.pending[m] = IF m = l THEN Append(k.pending[m], t) ELSE k.pending[m]
    BY <1>1, <1>6
  <2>2. d.stopped = k.stopped /\ d.whole = k.whole /\ d.broken = k.broken /\ d.up = k.up
    BY <2>1 DEF Same, Fields
  <2>3. /\ Going(Append(k.wire[l], f), l) => Going(k.wire[l], l)
        /\ Ahead(k.wire[l], k.pending[l], l) => Ahead(Append(k.wire[l], f), Append(k.pending[l], t), l)
        /\ Held(k.pending[l], l) => Held(Append(k.pending[l], t), l)
    BY <1>2, <1>3, AppendedOrder
  <2>4. \A m \in Links : Going(d.wire[m], m) => Going(k.wire[m], m)
    BY <2>1, <2>3
  <2>5. Ordered(k) => Ordered(d)
    BY <2>1, <2>3 DEF Ordered
  <2>6. \A m \in Links : Held(k.pending[m], m) => Held(d.pending[m], m)
    BY <2>1, <2>3
  <2>7. Adds(k, d)
    BY <1>1, <2>2, <2>4, <2>5, <2>6 DEF Adds, Follows
  <2> DEFINE p == k.pending[l]
             q == Append(p, t)
  <2>8. /\ p \in Seq(TxnsOf(l)) /\ d.pending[l] = q
    BY <1>2, <2>1
  <2> HIDE DEF p
  <2>9. /\ DOMAIN p = 1 .. Len(p) /\ Len(p) \in Nat
        /\ DOMAIN q = 1 .. Len(p) + 1 /\ q[Len(p) + 1] = t /\ \A n \in 1 .. Len(p) : q[n] = p[n]
    BY <2>8, Appended
  <2> HIDE DEF q
  <2>10. cmd = Kin(l) /\ "stop" \in marks => Held(q, l)
    BY <1>4, <2>9 DEF Held
  <2>11. ASSUME "stop" \notin marks, Unheld(k) PROVE Unheld(d)
    <3> SUFFICES ASSUME ~d.stopped, NEW m \in Links, NEW n \in DOMAIN d.pending[m]
                 PROVE  "stop" \notin d.pending[m][n].marks
      BY DEF Unheld
    <3>1. \A o \in DOMAIN k.pending[m] : "stop" \notin k.pending[m][o].marks
      BY <2>2, <2>11 DEF Unheld
    <3>2. CASE m = l
      <4>1. n \in DOMAIN q /\ d.pending[m][n] = q[n]
        BY <2>8, <3>2
      <4>2. q[n] = t \/ \E o \in DOMAIN p : q[n] = p[o]
        BY <2>9, <4>1
      <4> QED
        BY <1>4, <2>11, <3>1, <3>2, <4>1, <4>2 DEF p
    <3>3. CASE m # l
      BY <2>1, <3>1, <3>3
    <3> QED
      BY <3>2, <3>3
  <2>12. "stop" \notin marks => Settles(k, d)
    BY <2>7, <2>11, AddsSettles
  <2> QED
    BY <2>7, <2>8, <2>10, <2>12 DEF d
<1> QED
  BY <1>5, <1>6

\* The throttle told to rest.
LEMMA DutyFollows ==
  ASSUME NEW k, Wired(k), NEW marks \in SUBSET Marks
  PROVE  LET d == DutyInStop(k, "zero", marks)
         IN  /\ Adds(k, d)
             /\ AllGo(k) /\ "stop" \in marks => Held(d.pending["accel"], "accel")
             /\ "stop" \notin marks => Settles(k, d)
<1> DEFINE u == Unmarked(k, "latest")
           n == marks \cup {"latest"}
           w == WriteInStop(u, "accel", "duty", "zero", n)
           d == [w EXCEPT !.latestAcked = FALSE]
           e == WriteInStop(k, "accel", "duty", "zero", marks)
<1>0. /\ "accel" \in Links /\ Frame("duty", "zero") \in FramesOf("accel")
      /\ Frame("duty", "zero") # GoFrame("accel") /\ "duty" = Kin("accel")
      /\ n \in SUBSET Marks /\ ("stop" \in n <=> "stop" \in marks)
  BY FramesFit, KinIs DEF Links, GoFrame, Frame, Marks
<1> HIDE DEF n
<1>1. /\ Wired(u) /\ Same(k, u, {"pending"}) /\ Follows(k, u)
      /\ \A l \in Links :
            /\ DOMAIN u.pending[l] = DOMAIN k.pending[l]
            /\ \A i \in DOMAIN k.pending[l] :
                  /\ u.pending[l][i].cmd = k.pending[l][i].cmd
                  /\ u.pending[l][i].marks = k.pending[l][i].marks \ {"latest"}
  BY UnmarkedWires
<1>2. Settles(k, u)
  BY UnmarkedSettles
<1> HIDE DEF u
<1>3. Adds(k, u)
  <2>1. \A l \in Links : Held(k.pending[l], l) => Held(u.pending[l], l)
    BY <1>1 DEF Held
  <2>2. u.stopped = k.stopped /\ u.whole = k.whole /\ u.broken = k.broken /\ u.up = k.up
    BY <1>1 DEF Same, Fields
  <2> QED
    BY <1>1, <2>1, <2>2 DEF Adds
<1>4. /\ Adds(u, w)
      /\ AllGo(u) /\ "stop" \in n => Held(w.pending["accel"], "accel")
      /\ "stop" \notin n => Settles(u, w)
  BY <1>0, <1>1, WriteInStopFollows
<1>5. /\ Adds(k, e)
      /\ AllGo(k) /\ "stop" \in marks => Held(e.pending["accel"], "accel")
      /\ "stop" \notin marks => Settles(k, e)
  BY <1>0, WriteInStopFollows
<1>6. DutyInStop(k, "zero", marks) = IF Goes(k, "accel") THEN d ELSE e
  BY DEF DutyInStop, u, n
<1> HIDE DEF w, e
<1>7. /\ Same(w, d, {"latestAcked"}) /\ {"latestAcked"} \cap Core = {}
      /\ "up" \notin {"latestAcked"} /\ "broken" \notin {"latestAcked"} /\ Wired(w)
  BY <1>4 DEF Same, Core, Wired, Adds, Follows
<1> HIDE DEF d
<1>8. Adds(w, d) /\ Settles(w, d)
  BY <1>7, TouchAdds, TouchSettles
<1>9. Adds(k, d)
  BY <1>3, <1>4, <1>8, AddsTwice
<1>10. "stop" \notin marks => Settles(k, d)
  BY <1>0, <1>2, <1>4, <1>8, SettlesTwice
<1>11. AllGo(k) /\ "stop" \in marks => Held(d.pending["accel"], "accel")
  <2> HAVE AllGo(k) /\ "stop" \in marks
  <2>1. AllGo(u)
    BY <1>3 DEF Adds, AllGo, Goes
  <2> QED
    BY <1>0, <1>4, <1>8, <2>1 DEF Adds
<1> QED
  BY <1>5, <1>6, <1>9, <1>10, <1>11

\* A stop stands whatever was before it, as long as the order was kept.
Stops(k, d) ==
    /\ Follows(k, d) /\ Settles(k, d) /\ d.stopped = TRUE
    /\ Ordered(k) => \A on : Stands(d, on)

\* A board that goes at the end of a stop has the stop's frames to answer, unless one
\* of them did not go out.
LEMMA SafeStopStops ==
  ASSUME NEW k, Wired(k), NEW brake
  PROVE  Stops(k, SafeStop(k, brake))
<1> DEFINE u == Unmarked(k, "stop")
           m == Unmarked(u, "release")
           reset == [m EXCEPT !.stopped = TRUE, !.steer = "stop", !.duty = "zero"]
           rest == DutyInStop(reset, "zero", {"stop"})
           onset == [rest EXCEPT !.applied = TRUE, !.moving = TRUE,
                                 !.stopApply = 0, !.moveDir = "apply", !.moveAge = 0]
           still == [rest EXCEPT !.moving = FALSE]
           applies == WriteInStop(onset, "drive", "brake", "apply", {"stop"})
           halts == WriteInStop(still, "drive", "brake", "stop", {"stop"})
           braked == IF AppliesBrake(rest, brake) THEN applies
                     ELSE IF LetsStrokeRun(rest, brake) THEN rest ELSE halts
           ended == WriteInStop(braked, "drive", "steer", "stop", {"stop"})
           d == [ended EXCEPT !.whole = AllGo(k)]
           X == {"applied", "moving", "stopApply", "moveDir", "moveAge"}
<1>1. SafeStop(k, brake) = d
  BY DEF SafeStop
<1>0. /\ Frame("brake", "apply") \in FramesOf("drive") /\ Frame("brake", "apply") # GoFrame("drive")
      /\ Frame("brake", "stop") \in FramesOf("drive") /\ Frame("brake", "stop") # GoFrame("drive")
      /\ Frame("steer", "stop") \in FramesOf("drive") /\ Frame("steer", "stop") # GoFrame("drive")
      /\ "steer" = Kin("drive") /\ {"stop"} \in SUBSET Marks /\ "drive" \in Links /\ "accel" \in Links
  BY FramesFit, KinIs DEF Links, GoFrame, SteerTurn, Frame, Marks
<1>2. Follows(k, m) /\ Wired(m) /\ m.up = k.up /\ m.broken = k.broken
  <2>1. Follows(k, u) /\ Wired(u) /\ Same(k, u, {"pending"})
    BY UnmarkedWires
  <2> HIDE DEF u
  <2>2. Follows(u, m) /\ Wired(m) /\ Same(u, m, {"pending"})
    BY <2>1, UnmarkedWires
  <2> HIDE DEF m
  <2>3. m.up = k.up /\ m.broken = k.broken
    BY <2>1, <2>2 DEF Same, Fields
  <2> QED
    BY <2>1, <2>2, <2>3, FollowsTwice
<1> HIDE DEF u, m
<1>3. /\ reset.wire = m.wire /\ reset.pending = m.pending /\ reset.up = m.up /\ reset.broken = m.broken
      /\ reset.stopped = TRUE /\ DOMAIN reset = Fields
  BY <1>2 DEF Wired, Fields
<1> HIDE DEF reset
<1>4. Follows(k, reset) /\ Wired(reset) /\ (AllGo(reset) <=> AllGo(k))
  BY <1>2, <1>3 DEF Follows, Wired, Ordered, AllGo, Goes
<1>5. Adds(reset, rest) /\ (AllGo(reset) => Held(rest.pending["accel"], "accel")) /\ Wired(rest)
  <2>1. /\ Adds(reset, rest)
        /\ AllGo(reset) /\ "stop" \in {"stop"} => Held(rest.pending["accel"], "accel")
    BY <1>0, <1>4, DutyFollows
  <2> HIDE DEF rest
  <2> QED
    BY <2>1 DEF Adds, Follows
<1> HIDE DEF rest
<1>6. /\ Same(rest, onset, X) /\ Same(rest, still, X) /\ X \cap Core = {} /\ "up" \notin X /\ "broken" \notin X
  BY <1>5 DEF Same, Wired, Core
<1> HIDE DEF onset, still, X
<1>7. Adds(rest, onset) /\ Adds(rest, still) /\ Wired(onset) /\ Wired(still)
  BY <1>5, <1>6, TouchAdds DEF Adds, Follows
<1>8. Adds(onset, applies) /\ Adds(still, halts)
  BY <1>0, <1>7, WriteInStopFollows
<1> HIDE DEF applies, halts
<1>9. Adds(rest, rest)
  BY <1>5, SettlesSelf DEF Adds
<1>10. Adds(rest, braked) /\ Wired(braked)
  <2>1. braked \in {applies, rest, halts}
    OBVIOUS
  <2> HIDE DEF braked
  <2>2. Adds(rest, applies) /\ Adds(rest, halts)
    BY <1>7, <1>8, AddsTwice
  <2>3. Adds(rest, braked)
    BY <1>9, <2>1, <2>2
  <2> QED
    BY <2>3 DEF Adds, Follows
<1> HIDE DEF braked
<1>11. /\ Adds(braked, ended)
       /\ AllGo(braked) => Held(ended.pending["drive"], "drive")
  <2>1. /\ Adds(braked, ended)
        /\ AllGo(braked) /\ "steer" = Kin("drive") /\ "stop" \in {"stop"} => Held(ended.pending["drive"], "drive")
    BY <1>0, <1>10, WriteInStopFollows
  <2> HIDE DEF ended
  <2> QED
    BY <1>0, <2>1
<1> HIDE DEF ended
<1>12. Adds(reset, ended) /\ Wired(ended)
  <2>1. Adds(reset, braked)
    BY <1>5, <1>10, AddsTwice
  <2>2. Adds(reset, ended)
    BY <1>11, <2>1, AddsTwice
  <2> QED
    BY <2>2 DEF Adds, Follows
<1>13. AllGo(k) => \A l \in Links : Held(ended.pending[l], l)
  <2> HAVE AllGo(k)
  <2>1. AllGo(reset) /\ Held(rest.pending["accel"], "accel")
    BY <1>4, <1>5
  <2>2. AllGo(rest)
    BY <1>5, <2>1 DEF Adds, AllGo, Goes
  <2>3. AllGo(braked)
    BY <1>10, <2>2 DEF Adds, AllGo, Goes
  <2>4. Held(braked.pending["accel"], "accel")
    BY <1>0, <1>10, <2>1 DEF Adds
  <2>5. Held(ended.pending["accel"], "accel") /\ Held(ended.pending["drive"], "drive")
    BY <1>0, <1>11, <2>3, <2>4 DEF Adds
  <2> QED
    BY <2>5 DEF Links
<1>14. /\ d.wire = ended.wire /\ d.pending = ended.pending /\ d.stopped = ended.stopped
       /\ d.whole = AllGo(k) /\ DOMAIN d = Fields
  BY <1>12 DEF Wired, Fields
<1> HIDE DEF d
<1>15. d.stopped = TRUE
  BY <1>3, <1>12, <1>14 DEF Adds
<1>16. Follows(k, ended)
  BY <1>4, <1>12, FollowsTwice DEF Adds
<1>17. Follows(k, d)
  BY <1>14, <1>16 DEF Follows, Wired, Ordered
<1>18. \A l \in Links : \A b : Stood(d, l, b)
  BY <1>13, <1>14, Zenon DEF Stood
<1>19. Unheld(d)
  BY <1>15 DEF Unheld
<1>20. Ordered(k) => \A on : Stands(d, on)
  BY <1>17, <1>18, <1>19 DEF Stands, Follows
<1>21. Settles(k, d)
  BY <1>17, <1>20 DEF Settles, Stands
<1> QED
  BY <1>1, <1>15, <1>17, <1>20, <1>21 DEF Stops

\* What was done before a stop need only have kept the order.
LEMMA StopsAfter ==
  ASSUME NEW k, NEW a, NEW d, Follows(k, a), Stops(a, d)
  PROVE  Stops(k, d) /\ Settles(k, d)
<1>1. Follows(k, d)
  BY FollowsTwice DEF Stops
<1>2. Ordered(k) => \A on : Stands(d, on)
  BY DEF Stops, Follows
<1>3. Settles(k, d)
  BY <1>1, <1>2 DEF Settles, Stands
<1> QED
  BY <1>1, <1>2, <1>3 DEF Stops

LEMMA FaultStops ==
  ASSUME NEW k, Wired(k), NEW brake
  PROVE  Stops(k, Fault(k, brake))
<1> DEFINE u == [k EXCEPT !.faulted = TRUE, !.boardTripped = @ \/ ~brake]
<1>1. Same(k, u, {"faulted", "boardTripped"}) /\ {"faulted", "boardTripped"} \cap Core = {}
  BY DEF Same, Wired, Core
<1> HIDE DEF u
<1>2. Settles(k, u) /\ Wired(u)
  BY <1>1, TouchSettles
<1>3. Stops(u, SafeStop(u, brake))
  BY <1>2, SafeStopStops
<1>4. Stops(k, SafeStop(u, brake))
  BY <1>2, <1>3, StopsAfter DEF Settles
<1> QED
  BY <1>4 DEF Fault, u

\* _write() of a frame that takes nothing from rest, from a record (a) that keeps what
\* k stands on.
LEMMA WriteSettles ==
  ASSUME NEW k, NEW a, Settles(k, a), NEW l \in Links, NEW cmd, NEW arg, Frame(cmd, arg) \in FramesOf(l),
         Frame(cmd, arg) # GoFrame(l), NEW marks \in SUBSET Marks, "stop" \notin marks
  PROVE  Settles(k, Write(a, l, cmd, arg, marks)) /\ Wired(Write(a, l, cmd, arg, marks))
<1> DEFINE w == WriteInStop(a, l, cmd, arg, marks)
           d == Write(a, l, cmd, arg, marks)
<1>1. Settles(a, w)
  BY WriteInStopFollows DEF Settles, Follows
<1>2. d \in {w, SafeStop(w, TRUE)}
  BY DEF Write
<1> HIDE DEF w, d
<1>3. Settles(k, w) /\ Wired(w)
  BY <1>1, SettlesTwice DEF Settles, Follows
<1>4. Settles(w, SafeStop(w, TRUE))
  BY <1>3, SafeStopStops DEF Stops
<1>5. Settles(k, d)
  <2>1. Settles(k, SafeStop(w, TRUE))
    BY <1>3, <1>4, SettlesTwice
  <2> QED
    BY <1>2, <1>3, <2>1
<1>6. Settles(k, d) /\ Wired(d)
  BY <1>5 DEF Settles, Follows
<1> QED
  BY <1>6 DEF d

\* The frames that take nothing from rest.
LEMMA OtherFrames ==
  /\ "accel" \in Links /\ "drive" \in Links
  /\ \A cmd \in {"alive", "read"} : Frame(cmd, "") \in FramesOf("accel") /\ Frame(cmd, "") # GoFrame("accel")
  /\ \A b \in {"stop", "apply", "release"} :
        Frame("brake", b) \in FramesOf("drive") /\ Frame("brake", b) # GoFrame("drive")
  /\ \A g \in {"D", "N"} : Frame("gear", g) \in FramesOf("drive") /\ Frame("gear", g) # GoFrame("drive")
  /\ \A cmd \in {"alive", "angles"} : Frame(cmd, "") \in FramesOf("drive") /\ Frame(cmd, "") # GoFrame("drive")
  /\ Frame("steer", "stop") \in FramesOf("drive") /\ Frame("steer", "stop") # GoFrame("drive")
  /\ {} \in SUBSET Marks /\ {"release"} \in SUBSET Marks /\ "stop" \notin {} /\ "stop" \notin {"release"}
BY FramesFit DEF Links, GoFrame, SteerTurn, Frame, Marks

LEMMA WriteDutySettles ==
  ASSUME NEW k, NEW a, Settles(k, a)
  PROVE  Settles(k, WriteDuty(a, "zero")) /\ Wired(WriteDuty(a, "zero"))
<1> DEFINE w == DutyInStop(a, "zero", {})
           d == WriteDuty(a, "zero")
<1>1. Settles(a, w)
  BY OtherFrames, DutyFollows DEF Settles, Follows
<1>2. d \in {w, SafeStop(w, TRUE)}
  BY DEF WriteDuty
<1> HIDE DEF w, d
<1>3. Settles(k, w) /\ Wired(w)
  BY <1>1, SettlesTwice DEF Settles, Follows
<1>4. Settles(w, SafeStop(w, TRUE))
  BY <1>3, SafeStopStops DEF Stops
<1>5. Settles(k, d)
  <2>1. Settles(k, SafeStop(w, TRUE))
    BY <1>3, <1>4, SettlesTwice
  <2> QED
    BY <1>2, <1>3, <2>1
<1>6. Settles(k, d) /\ Wired(d)
  BY <1>5 DEF Settles, Follows
<1> QED
  BY <1>6 DEF d

LEMMA TouchAfter ==
  ASSUME NEW k, NEW a, Settles(k, a), NEW X, X \cap Core = {}, NEW d, Same(a, d, X)
  PROVE  Settles(k, d) /\ Wired(d)
<1>1. Settles(a, d) /\ Wired(d)
  BY TouchSettles DEF Settles, Follows
<1> QED
  BY <1>1, SettlesTwice

\* Nothing on this wire that takes the board's duty or steering anywhere.
NoKin(k, l) == \A i \in DOMAIN k.wire[l] : k.wire[l][i].cmd # Kin(l)

\* What a write does to a wire, unless it stops the vehicle.
LEMMA WriteQuiet ==
  ASSUME NEW k, Wired(k), NEW l \in Links, NEW cmd, NEW arg, Frame(cmd, arg) \in FramesOf(l),
         NEW marks \in SUBSET Marks
  PROVE  LET d == Write(k, l, cmd, arg, marks)
         IN  \/ d.stopped = TRUE
             \/ /\ Same(k, d, {"wire", "pending", "up", "faulted"})
                /\ \A m \in Links : (m # l \/ cmd # Kin(l)) /\ NoKin(k, m) => NoKin(d, m)
<1> DEFINE f == Frame(cmd, arg)
           w == WriteInStop(k, l, cmd, arg, marks)
           d == Write(k, l, cmd, arg, marks)
<1>1. /\ Wired(w)
      /\ IF Goes(k, l)
         THEN /\ Same(k, w, {"wire", "pending"})
              /\ \A m \in Links : w.wire[m] = IF m = l THEN Append(k.wire[m], f) ELSE k.wire[m]
         ELSE Same(k, w, {"up", "faulted"})
  BY WriteInStopAdds, ZenonT(40)
<1>2. d = IF k.up[l] /\ ~w.up[l] THEN SafeStop(w, TRUE) ELSE w
  BY DEF Write
<1>3. CASE k.up[l] /\ ~w.up[l]
  <2>1. SafeStop(w, TRUE).stopped = TRUE
    BY <1>1, SafeStopStops DEF Stops
  <2> QED
    BY <1>2, <1>3, <2>1
<1>4. CASE ~(k.up[l] /\ ~w.up[l])
  <2>1. CASE Goes(k, l)
    <3>1. f.cmd = cmd
      BY DEF Frame
    <3> HIDE DEF w, f
    <3>2. d = w /\ Same(k, w, {"wire", "pending"})
      BY <1>1, <1>2, <1>4, <2>1
    <3>3. ASSUME NEW m \in Links, m # l \/ cmd # Kin(l), NoKin(k, m) PROVE NoKin(w, m)
      <4>1. CASE m # l
        BY <1>1, <2>1, <3>3, <4>1 DEF NoKin
      <4>2. CASE m = l
        <5> DEFINE v == k.wire[l]
        <5>1. v \in Seq(FramesOf(l)) /\ w.wire[l] = Append(v, f)
          BY <1>1, <2>1 DEF Wired
        <5>2. \A i \in DOMAIN v : v[i].cmd # Kin(l)
          BY <3>3, <4>2 DEF NoKin
        <5> HIDE DEF v
        <5>3. \A i \in DOMAIN Append(v, f) : Append(v, f)[i] = f \/ \E j \in DOMAIN v : Append(v, f)[i] = v[j]
          BY <5>1, Appended
        <5>4. \A i \in DOMAIN Append(v, f) : Append(v, f)[i].cmd # Kin(l)
          BY <3>1, <3>3, <4>2, <5>2, <5>3
        <5> QED
          BY <4>2, <5>1, <5>4 DEF NoKin
      <4> QED
        BY <4>1, <4>2
    <3>4. Same(k, w, {"wire", "pending", "up", "faulted"})
      BY <3>2 DEF Same
    <3> QED
      BY <3>2, <3>3, <3>4
  <2>2. CASE ~Goes(k, l)
    <3> HIDE DEF w
    <3>1. d = w /\ Same(k, w, {"up", "faulted"})
      BY <1>1, <1>2, <1>4, <2>2
    <3>2. w.wire = k.wire
      BY <3>1 DEF Same, Fields
    <3>3. \A m \in Links : NoKin(k, m) => NoKin(w, m)
      BY <3>2 DEF NoKin
    <3>4. Same(k, w, {"wire", "pending", "up", "faulted"})
      BY <3>1 DEF Same
    <3> QED
      BY <3>1, <3>3, <3>4
  <2> QED
    BY <2>1, <2>2
<1> QED
  BY <1>3, <1>4

LEMMA WriteDutyQuiet ==
  ASSUME NEW k, Wired(k)
  PROVE  LET d == WriteDuty(k, "zero")
         IN  \/ d.stopped = TRUE
             \/ /\ d.applied = k.applied /\ d.stopped = k.stopped
                /\ NoKin(k, "drive") => NoKin(d, "drive")
<1> DEFINE w == DutyInStop(k, "zero", {})
           d == WriteDuty(k, "zero")
<1>1. Wired(w)
  BY OtherFrames, DutyFollows DEF Settles, Follows, Adds
<1>2. d = IF k.up["accel"] /\ ~w.up["accel"] THEN SafeStop(w, TRUE) ELSE w
  BY DEF WriteDuty
<1>3. SafeStop(w, TRUE).stopped = TRUE
  BY <1>1, SafeStopStops DEF Stops
<1> DEFINE u == Unmarked(k, "latest")
           n == {} \cup {"latest"}
           x == WriteInStop(u, "accel", "duty", "zero", n)
           y == WriteInStop(k, "accel", "duty", "zero", {})
<1>4. w = IF Goes(k, "accel") THEN [x EXCEPT !.latestAcked = FALSE] ELSE y
  BY DEF DutyInStop
<1>0. "accel" \in Links /\ "drive" \in Links /\ Frame("duty", "zero") \in FramesOf("accel")
      /\ {} \in SUBSET Marks /\ n \in SUBSET Marks
  BY FramesFit DEF Links, Marks
<1>5. Wired(u) /\ u.wire = k.wire /\ Same(k, u, {"pending"})
  BY UnmarkedWires
<1> HIDE DEF w, u, n
<1>61. /\ Wired(x)
       /\ IF Goes(u, "accel")
          THEN /\ Same(u, x, {"wire", "pending"})
               /\ \A m \in Links :
                     /\ x.wire[m] = IF m = "accel" THEN Append(u.wire[m], Frame("duty", "zero")) ELSE u.wire[m]
                     /\ x.pending[m] = IF m = "accel" THEN Append(u.pending[m],
                            [cmd |-> "duty", arg |-> "zero", age |-> 0, marks |-> n]) ELSE u.pending[m]
          ELSE Same(u, x, {"up", "faulted"})
  BY <1>0, <1>5, WriteInStopAdds
<1> HIDE DEF x
<1>6. /\ Wired(x)
      /\ IF Goes(u, "accel")
         THEN Same(u, x, {"wire", "pending"}) /\ \A m \in Links : m # "accel" => x.wire[m] = u.wire[m]
         ELSE Same(u, x, {"up", "faulted"})
  BY <1>61
<1>7. /\ Wired(y)
      /\ IF Goes(k, "accel")
         THEN Same(k, y, {"wire", "pending"})
         ELSE Same(k, y, {"up", "faulted"})
  BY <1>0, WriteInStopAdds
<1> HIDE DEF x, y, d
<1>8. x.wire["drive"] = k.wire["drive"] /\ x.applied = k.applied /\ x.stopped = k.stopped
  BY <1>0, <1>5, <1>6 DEF Same, Fields, Links
<1>9. ~Goes(k, "accel") =>
         y.wire["drive"] = k.wire["drive"] /\ y.applied = k.applied /\ y.stopped = k.stopped
  BY <1>7 DEF Same, Fields
<1>10. w.wire["drive"] = k.wire["drive"] /\ w.applied = k.applied /\ w.stopped = k.stopped
  BY <1>4, <1>6, <1>8, <1>9 DEF Wired, Fields
<1>11. \/ d.stopped = TRUE
       \/ d.applied = k.applied /\ d.stopped = k.stopped /\ d.wire["drive"] = k.wire["drive"]
  BY <1>2, <1>3, <1>10
<1> QED
  BY <1>11 DEF NoKin, d

LEMMA ApplySettles ==
  ASSUME NEW k, Wired(k)
  PROVE  LET d == ApplyBrake(k)
         IN  /\ Settles(k, d) /\ Wired(d)
             /\ \/ d.stopped = TRUE
                \/ /\ d.applied = TRUE /\ d.stopped = k.stopped
                   /\ NoKin(k, "drive") => NoKin(d, "drive")
<1> DEFINE u == Unmarked(k, "release")
           t == [u EXCEPT !.applied = TRUE, !.duty = "zero"]
           off == WriteDuty(t, "zero")
           m == [off EXCEPT !.moving = TRUE, !.moveDir = "apply", !.moveAge = 0]
           d == Write(m, "drive", "brake", "apply", {})
           X == {"moving", "moveDir", "moveAge"}
<1>1. ApplyBrake(k) = d
  BY DEF ApplyBrake
<1>2. Settles(k, u) /\ Wired(u) /\ u.wire = k.wire /\ u.stopped = k.stopped
  BY UnmarkedSettles, UnmarkedWires DEF Same, Fields
<1> HIDE DEF u
<1>3. Same(u, t, {"applied", "duty"}) /\ {"applied", "duty"} \cap Core = {} /\ t.applied = TRUE /\ t.wire = k.wire
      /\ t.stopped = k.stopped
  BY <1>2 DEF Same, Wired, Core, Fields
<1> HIDE DEF t
<1>4. Settles(k, t) /\ Wired(t)
  BY <1>2, <1>3, TouchAfter
<1>5. Settles(k, off) /\ Wired(off)
  BY <1>4, WriteDutySettles
<1>6. \/ off.stopped = TRUE
      \/ /\ off.applied = TRUE /\ off.stopped = k.stopped
         /\ NoKin(k, "drive") => NoKin(off, "drive")
  <2>1. \/ off.stopped = TRUE
        \/ /\ off.applied = t.applied /\ off.stopped = t.stopped
           /\ NoKin(t, "drive") => NoKin(off, "drive")
    BY <1>4, WriteDutyQuiet
  <2>2. NoKin(k, "drive") => NoKin(t, "drive")
    BY <1>3 DEF NoKin
  <2> QED
    BY <1>3, <2>1, <2>2
<1> HIDE DEF off
<1>7. /\ Same(off, m, X) /\ X \cap Core = {} /\ m.applied = off.applied /\ m.wire = off.wire
      /\ m.stopped = off.stopped
  BY <1>5 DEF Same, Wired, Core, Fields
<1> HIDE DEF m, X
<1>8. Settles(k, m) /\ Wired(m)
  BY <1>5, <1>7, TouchAfter
<1>9. Settles(k, d) /\ Wired(d)
  BY <1>8, OtherFrames, WriteSettles
<1>10. /\ Frame("brake", "apply") \in FramesOf("drive") /\ {} \in SUBSET Marks /\ "drive" \in Links
       /\ "brake" # Kin("drive")
  BY OtherFrames, KinIs
<1>11. \/ d.stopped = TRUE
       \/ /\ Same(m, d, {"wire", "pending", "up", "faulted"})
          /\ NoKin(m, "drive") => NoKin(d, "drive")
  BY <1>8, <1>10, WriteQuiet
<1> HIDE DEF d
<1>12. d.stopped = TRUE \/ (d.stopped = m.stopped /\ d.applied = m.applied)
  BY <1>11 DEF Same, Fields
<1>13. NoKin(off, "drive") => NoKin(m, "drive")
  BY <1>7 DEF NoKin
<1>14. \/ d.stopped = TRUE
       \/ /\ d.applied = TRUE /\ d.stopped = k.stopped
          /\ NoKin(k, "drive") => NoKin(d, "drive")
  BY <1>6, <1>7, <1>11, <1>12, <1>13
<1> QED
  BY <1>1, <1>9, <1>14

LEMMA ReleaseSettles ==
  ASSUME NEW k, Wired(k)
  PROVE  LET d == ReleaseBrake(k)
         IN  /\ Settles(k, d) /\ Wired(d)
             /\ \/ d.stopped = TRUE
                \/ d.applied = k.applied /\ \A l \in Links : NoKin(k, l) => NoKin(d, l)
<1> DEFINE u == Unmarked(k, "release")
           m == [u EXCEPT !.moving = TRUE, !.moveDir = "release", !.moveAge = 0]
           d == Write(m, "drive", "brake", "release", {"release"})
           X == {"moving", "moveDir", "moveAge"}
<1>1. ReleaseBrake(k) = d
  BY DEF ReleaseBrake
<1>2. Settles(k, u) /\ Wired(u) /\ u.wire = k.wire /\ Same(k, u, {"pending"})
  BY UnmarkedSettles, UnmarkedWires
<1> HIDE DEF u
<1>3. Same(u, m, X) /\ X \cap Core = {} /\ m.applied = k.applied /\ m.wire = k.wire
  BY <1>2 DEF Same, Wired, Core, Fields
<1> HIDE DEF m, X
<1>4. Settles(k, m) /\ Wired(m)
  BY <1>2, <1>3, TouchAfter
<1>5. Settles(k, d) /\ Wired(d)
  BY <1>4, OtherFrames, WriteSettles
<1>6. /\ Frame("brake", "release") \in FramesOf("drive") /\ {"release"} \in SUBSET Marks /\ "drive" \in Links
      /\ "brake" # Kin("drive")
  BY OtherFrames, KinIs
<1>7. \/ d.stopped = TRUE
      \/ /\ Same(m, d, {"wire", "pending", "up", "faulted"})
         /\ \A l \in Links : NoKin(m, l) => NoKin(d, l)
  BY <1>4, <1>6, WriteQuiet
<1> HIDE DEF d
<1>8. d.stopped = TRUE \/ d.applied = m.applied
  BY <1>7 DEF Same, Fields
<1>9. \A l \in Links : NoKin(k, l) => NoKin(m, l)
  BY <1>3 DEF NoKin
<1>10. d.stopped = TRUE \/ (d.applied = k.applied /\ \A l \in Links : NoKin(k, l) => NoKin(d, l))
  BY <1>3, <1>7, <1>8, <1>9
<1> QED
  BY <1>1, <1>5, <1>10

LEMMA GearSettles ==
  ASSUME NEW k, Wired(k), NEW g \in {"D", "N"}
  PROVE  LET d == Gear(k, g)
         IN  /\ Settles(k, d) /\ Wired(d)
             /\ \/ d.stopped = TRUE
                \/ d.applied = k.applied /\ \A l \in Links : NoKin(k, l) => NoKin(d, l)
<1> DEFINE d == Write(k, "drive", "gear", g, {})
<1>1. Gear(k, g) = d
  BY DEF Gear
<1>2. /\ Frame("gear", g) \in FramesOf("drive") /\ {} \in SUBSET Marks /\ "drive" \in Links
      /\ "gear" # Kin("drive") /\ Frame("gear", g) # GoFrame("drive")
  BY OtherFrames, KinIs
<1>3. Settles(k, d) /\ Wired(d)
  BY <1>2, SettlesSelf, WriteSettles
<1>4. \/ d.stopped = TRUE
      \/ /\ Same(k, d, {"wire", "pending", "up", "faulted"})
         /\ \A l \in Links : NoKin(k, l) => NoKin(d, l)
  BY <1>2, WriteQuiet
<1> HIDE DEF d
<1>5. d.stopped = TRUE \/ d.applied = k.applied
  BY <1>4 DEF Same, Fields
<1> QED
  BY <1>1, <1>3, <1>4, <1>5

\* What takes a board from rest leads its kind, where the vehicle does not stand under a
\* stop and nothing of its kind is on the way.
LEMMA GoStands ==
  ASSUME NEW k, Wired(k), NEW l \in Links, NoKin(k, l), ~k.stopped, Goes(k, l), NEW on, Stands(k, on),
         NEW marks \in SUBSET Marks, "stop" \notin marks, NEW f, f = GoFrame(l)
  PROVE  Stands(WriteInStop(k, l, f.cmd, f.arg, marks), on) /\ Wired(WriteInStop(k, l, f.cmd, f.arg, marks))
<1> DEFINE t == [cmd |-> f.cmd, arg |-> f.arg, age |-> 0, marks |-> marks]
           d == WriteInStop(k, l, f.cmd, f.arg, marks)
           v == k.wire[l]
           w == Append(v, f)
           p == k.pending[l]
           q == Append(p, t)
<1>1. f = Frame(f.cmd, f.arg) /\ f \in FramesOf(l) /\ f.cmd = Kin(l)
  BY KinIs DEF GoFrame, Frame, SteerTurn
<1>2. /\ Wired(d) /\ Same(k, d, {"wire", "pending"})
      /\ \A m \in Links :
            /\ d.wire[m] = IF m = l THEN Append(k.wire[m], f) ELSE k.wire[m]
            /\ d.pending[m] = IF m = l THEN Append(k.pending[m], t) ELSE k.pending[m]
  BY <1>1, WriteInStopAdds
<1>3. t.cmd = Kin(l) /\ "stop" \notin t.marks
  BY <1>1
<1>4. v \in Seq(FramesOf(l)) /\ p \in Seq(TxnsOf(l))
  BY DEF Wired
<1>5. d.wire[l] = w /\ d.pending[l] = q
  BY <1>2
<1>6. /\ \A i \in DOMAIN v : v[i].cmd # Kin(l)
      /\ \A n \in DOMAIN p : "stop" \notin p[n].marks
  BY DEF NoKin, Stands, Unheld
<1> HIDE DEF d, t, p, v
<1>7. /\ DOMAIN v = 1 .. Len(v) /\ Len(v) \in Nat /\ DOMAIN w = 1 .. Len(v) + 1
      /\ \A i \in 1 .. Len(v) : w[i] = v[i]
  BY <1>4, Appended
<1>8. /\ DOMAIN p = 1 .. Len(p) /\ Len(p) \in Nat /\ DOMAIN q = 1 .. Len(p) + 1 /\ q[Len(p) + 1] = t
      /\ \A i \in 1 .. Len(p) : q[i] = p[i]
  BY <1>4, Appended
<1> HIDE DEF w, q
<1>9. \A n \in DOMAIN q : "stop" \notin q[n].marks
  <2> TAKE n \in DOMAIN q
  <2>1. CASE n = Len(p) + 1
    BY <1>3, <1>8, <2>1
  <2>2. CASE n \in 1 .. Len(p)
    BY <1>6, <1>8, <2>2
  <2> QED
    BY <1>8, <2>1, <2>2
<1>10. Led(q, l)
  <2>1. Len(p) + 1 \in DOMAIN q /\ q[Len(p) + 1].cmd = Kin(l)
    BY <1>3, <1>8
  <2> QED
    BY <1>9, <2>1 DEF Led
<1>11. ASSUME NEW i \in DOMAIN w, NEW j \in DOMAIN w, j < i PROVE w[j].cmd # Kin(l)
  <2>1. j \in DOMAIN v /\ w[j] = v[j]
    BY <1>7, <1>11
  <2> QED
    BY <1>6, <2>1
<1>12. Ahead(w, q, l)
  BY <1>10, <1>11 DEF Ahead
<1>13. Ordered(d)
  <2> SUFFICES ASSUME NEW m \in Links PROVE Ahead(d.wire[m], d.pending[m], m)
    BY DEF Ordered
  <2>1. CASE m = l
    BY <1>5, <1>12, <2>1
  <2>2. CASE m # l
    BY <1>2, <2>2 DEF Stands, Ordered
  <2> QED
    BY <2>1, <2>2
<1>14. Unheld(d)
  <2> SUFFICES ASSUME NEW m \in Links PROVE \A n \in DOMAIN d.pending[m] : "stop" \notin d.pending[m][n].marks
    BY DEF Unheld
  <2>1. CASE m = l
    BY <1>5, <1>9, <2>1
  <2>2. CASE m # l
    BY <1>2, <2>2 DEF Stands, Unheld
  <2> QED
    BY <2>1, <2>2
<1>15. ~d.stopped
  BY <1>2 DEF Same, Fields
<1> QED
  BY <1>2, <1>13, <1>14, <1>15 DEF Stands, Stood, d

LEMMA ThrottleStands ==
  ASSUME NEW k, Wired(k), ~k.stopped, NoKin(k, "accel"), NEW on, Stands(k, on)
  PROVE  LET d == SetThrottle(k, "positive")
         IN  Stands(d, on) /\ Wired(d) /\ (d.stopped = TRUE \/ d.wire["drive"] = k.wire["drive"])
<1> DEFINE a == [k EXCEPT !.duty = "positive"]
           u == Unmarked(a, "latest")
           n == {} \cup {"latest"}
           x == WriteInStop(u, "accel", "duty", "positive", n)
           y == WriteInStop(a, "accel", "duty", "positive", {})
           w == DutyInStop(a, "positive", {})
           d == WriteDuty(a, "positive")
<1>0. /\ "accel" \in Links /\ "drive" \in Links /\ {} \in SUBSET Marks /\ n \in SUBSET Marks /\ "stop" \notin n
      /\ Frame("duty", "positive") \in FramesOf("accel") /\ "accel" # "drive"
      /\ GoFrame("accel").cmd = "duty" /\ GoFrame("accel").arg = "positive"
      /\ GoFrame("accel") = Frame("duty", "positive")
  BY FramesFit DEF Links, Marks, GoFrame, Frame
<1>1. w = IF Goes(a, "accel") THEN [x EXCEPT !.latestAcked = FALSE] ELSE y
  BY DEF DutyInStop
<1>2. SetThrottle(k, "positive") = d
  BY DEF SetThrottle
<1>3. d \in {w, SafeStop(w, TRUE)}
  BY DEF WriteDuty
<1> HIDE DEF w, d, n
<1>4. Same(k, a, {"duty"}) /\ {"duty"} \cap Core = {} /\ a.wire = k.wire /\ a.stopped = k.stopped
  BY DEF Same, Wired, Core, Fields
<1> HIDE DEF a
<1>5. Wired(a) /\ Stands(a, on)
  BY <1>4, TouchSettles DEF Settles
<1>6. Wired(u) /\ u.wire = a.wire /\ Same(a, u, {"pending"}) /\ Settles(a, u)
  BY <1>5, UnmarkedWires, UnmarkedSettles
<1> HIDE DEF u
<1>7. u.stopped = a.stopped /\ (Goes(a, "accel") => Goes(u, "accel"))
  BY <1>6 DEF Same, Fields, Goes
<1>8. NoKin(u, "accel") /\ ~u.stopped /\ Stands(u, on)
  BY <1>4, <1>5, <1>6, <1>7 DEF NoKin, Settles
<1>9. ASSUME Goes(a, "accel") PROVE Stands(x, on) /\ Wired(x) /\ x.wire["drive"] = k.wire["drive"]
  <2>1. Goes(u, "accel")
    BY <1>7, <1>9
  <2>2. Stands(x, on) /\ Wired(x)
    BY <1>0, <1>6, <1>8, <2>1, GoStands
  <2>3. \A m \in Links :
           /\ x.wire[m] = IF m = "accel" THEN Append(u.wire[m], Frame("duty", "positive")) ELSE u.wire[m]
           /\ x.pending[m] = IF m = "accel" THEN Append(u.pending[m],
                  [cmd |-> "duty", arg |-> "positive", age |-> 0, marks |-> n]) ELSE u.pending[m]
    BY <1>0, <1>6, <2>1, WriteInStopAdds
  <2> HIDE DEF x
  <2>4. x.wire["drive"] = u.wire["drive"]
    BY <1>0, <2>3
  <2> QED
    BY <1>4, <1>6, <2>2, <2>4
<1>10. ASSUME ~Goes(a, "accel") PROVE Stands(y, on) /\ Wired(y) /\ y.wire["drive"] = k.wire["drive"]
  <2>1. Same(a, y, {"up", "faulted"}) /\ Wired(y)
    BY <1>0, <1>5, <1>10, WriteInStopAdds
  <2> HIDE DEF y
  <2>2. {"up", "faulted"} \cap Core = {}
    BY DEF Core
  <2>3. Stands(y, on) /\ y.wire = a.wire
    BY <1>5, <2>1, <2>2, TouchSettles DEF Settles
  <2> QED
    BY <1>4, <2>1, <2>3
<1> HIDE DEF x, y
<1>11. Stands(w, on) /\ Wired(w) /\ w.wire["drive"] = k.wire["drive"]
  <2>1. CASE Goes(a, "accel")
    <3>1. /\ Same(x, w, {"latestAcked"}) /\ {"latestAcked"} \cap Core = {}
      BY <1>1, <1>9, <2>1 DEF Same, Wired, Core
    <3>2. Settles(x, w) /\ Wired(w) /\ w.wire = x.wire
      BY <1>9, <2>1, <3>1, TouchSettles
    <3> QED
      BY <1>9, <2>1, <3>2 DEF Settles
  <2>2. CASE ~Goes(a, "accel")
    BY <1>1, <1>10, <2>2
  <2> QED
    BY <2>1, <2>2
<1>12. LET s == SafeStop(w, TRUE)
       IN  Stands(s, on) /\ Wired(s) /\ s.stopped = TRUE
  BY <1>11, SafeStopStops DEF Stops, Settles, Follows
<1>13. Stands(d, on) /\ Wired(d) /\ (d.stopped = TRUE \/ d.wire["drive"] = k.wire["drive"])
  BY <1>3, <1>11, <1>12
<1> QED
  BY <1>2, <1>13

LEMMA SteerStands ==
  ASSUME NEW k, Wired(k), NEW dir \in {"stop", "turn"},
         dir = "turn" => ~k.stopped /\ NoKin(k, "drive"), NEW on, Stands(k, on)
  PROVE  Stands(Steer(k, dir), on) /\ Wired(Steer(k, dir))
<1> DEFINE a == [k EXCEPT !.steer = dir]
           w == WriteInStop(a, "drive", "steer", dir, {})
           d == Write(a, "drive", "steer", dir, {})
<1>0. /\ "drive" \in Links /\ {} \in SUBSET Marks /\ "stop" \notin {}
      /\ Frame("steer", dir) \in FramesOf("drive")
      /\ GoFrame("drive").cmd = "steer" /\ GoFrame("drive").arg = "turn"
      /\ dir = "stop" => Frame("steer", dir) # GoFrame("drive")
  BY FramesFit DEF Links, Marks, GoFrame, Frame, SteerTurn
<1>1. Steer(k, dir) = d
  BY DEF Steer
<1>2. d \in {w, SafeStop(w, TRUE)}
  BY DEF Write
<1> HIDE DEF d
<1>3. Same(k, a, {"steer"}) /\ {"steer"} \cap Core = {} /\ a.wire = k.wire /\ a.stopped = k.stopped
  BY DEF Same, Wired, Core, Fields
<1> HIDE DEF a
<1>4. Wired(a) /\ Stands(a, on) /\ Settles(k, a)
  BY <1>3, TouchSettles DEF Settles
<1>5. Stands(w, on) /\ Wired(w)
  <2>1. CASE dir = "stop"
    BY <1>0, <1>4, <2>1, WriteInStopFollows DEF Settles, Follows
  <2>2. CASE dir = "turn" /\ Goes(a, "drive")
    <3>1. NoKin(a, "drive") /\ ~a.stopped
      BY <1>3, <2>2 DEF NoKin
    <3> QED
      BY <1>0, <1>4, <2>2, <3>1, GoStands
  <2>3. CASE ~Goes(a, "drive")
    <3>1. Same(a, w, {"up", "faulted"}) /\ Wired(w)
      BY <1>0, <1>4, <2>3, WriteInStopAdds
    <3> HIDE DEF w
    <3>2. {"up", "faulted"} \cap Core = {}
      BY DEF Core
    <3> QED
      BY <1>4, <3>1, <3>2, TouchSettles DEF Settles
  <2> QED
    BY <2>1, <2>2, <2>3
<1> HIDE DEF w
<1>6. LET s == SafeStop(w, TRUE)
      IN  Stands(s, on) /\ Wired(s)
  BY <1>5, SafeStopStops DEF Stops, Settles, Follows
<1> QED
  BY <1>1, <1>2, <1>5, <1>6

LEMMA UnlatchedSettles ==
  ASSUME NEW k, Wired(k)
  PROVE  Settles(k, Unlatched(k)) /\ Wired(Unlatched(k))
<1> DEFINE b == Unmarked(k, "stop")
           u == [b EXCEPT !.stopped = FALSE, !.whole = TRUE, !.stopApply = Never]
           m == [u EXCEPT !.moving = FALSE]
           h == Write(m, "drive", "brake", "stop", {})
<1>1. Unlatched(k) \in {h, u}
  BY DEF Unlatched
<1>2. /\ Wired(b) /\ b.wire = k.wire /\ Follows(k, b)
      /\ \A l \in Links :
            /\ DOMAIN b.pending[l] = DOMAIN k.pending[l]
            /\ \A n \in DOMAIN k.pending[l] : b.pending[l][n].marks = k.pending[l][n].marks \ {"stop"}
  BY UnmarkedWires
<1> HIDE DEF b
<1>3. u.wire = b.wire /\ u.pending = b.pending /\ u.stopped = FALSE /\ DOMAIN u = Fields
  BY <1>2 DEF Wired, Fields
<1> HIDE DEF u
<1>4. Follows(k, u) /\ Wired(u)
  BY <1>2, <1>3 DEF Follows, Wired, Ordered
<1>5. Unheld(u)
  BY <1>2, <1>3 DEF Unheld
<1>6. \A l \in Links : \A x : Stood(u, l, x)
  BY <1>3 DEF Stood
<1>7. Settles(k, u)
  BY <1>4, <1>5, <1>6 DEF Settles, Stands, Follows
<1>8. Same(u, m, {"moving"}) /\ {"moving"} \cap Core = {}
  BY <1>3 DEF Same, Core
<1> HIDE DEF m
<1>9. Settles(k, m)
  BY <1>7, <1>8, TouchAfter
<1>10. Settles(k, h) /\ Wired(h)
  BY <1>9, OtherFrames, WriteSettles
<1> HIDE DEF h
<1> QED
  BY <1>1, <1>4, <1>7, <1>10

LEMMA ClearSettles ==
  ASSUME NEW k, Wired(k)
  PROVE  Settles(k, ClearFaults(k)) /\ Wired(ClearFaults(k))
<1> DEFINE a == [k EXCEPT !.faulted = FALSE, !.boardTripped = FALSE]
           u == Unlatched(a)
           m == [u EXCEPT !.alive = FALSE]
<1>1. ClearFaults(k) = WriteDuty(m, "zero")
  BY DEF ClearFaults
<1>2. Same(k, a, {"faulted", "boardTripped"}) /\ {"faulted", "boardTripped"} \cap Core = {}
  BY DEF Same, Wired, Core
<1> HIDE DEF a
<1>3. Settles(k, a) /\ Wired(a)
  BY <1>2, TouchSettles
<1>4. Settles(a, u) /\ Wired(u)
  BY <1>3, UnlatchedSettles
<1> HIDE DEF u
<1>5. Settles(k, u)
  BY <1>3, <1>4, SettlesTwice
<1>6. Same(u, m, {"alive"}) /\ {"alive"} \cap Core = {}
  BY <1>4 DEF Same, Wired, Core
<1> HIDE DEF m
<1>7. Settles(k, m)
  BY <1>5, <1>6, TouchAfter
<1>8. Settles(k, WriteDuty(m, "zero")) /\ Wired(WriteDuty(m, "zero"))
  BY <1>7, WriteDutySettles
<1> QED
  BY <1>1, <1>8

\* The first transaction with the reply's command byte.
LEMMA FirstWaiting ==
  ASSUME NEW l \in Links, NEW k, k.pending[l] \in Seq(TxnsOf(l)), NEW cmd, Waiting(k, l, cmd) # {}
  PROVE  LET p == k.pending[l]
             i == CHOOSE j \in Waiting(k, l, cmd) : \A n \in Waiting(k, l, cmd) : j <= n
         IN  /\ i \in 1 .. Len(p) /\ p[i].cmd = cmd
             /\ \A n \in DOMAIN p : p[n].cmd = cmd => i <= n
<1> DEFINE p == k.pending[l]
           w == Waiting(k, l, cmd)
           i == CHOOSE j \in w : \A n \in w : j <= n
<1>1. p \in Seq(TxnsOf(l)) /\ w = {j \in DOMAIN p : p[j].cmd = cmd}
  BY DEF Waiting
<1> HIDE DEF p, w
<1>2. Len(p) \in Nat /\ DOMAIN p = 1 .. Len(p)
  BY <1>1
<1>3. w \in SUBSET (1 .. Len(p)) /\ w # {}
  BY <1>1, <1>2 DEF w
<1>4. \E j \in w : \A n \in w : j <= n
  BY <1>2, <1>3, HasFirst
<1>5. i \in w /\ \A n \in w : i <= n
  BY <1>4
<1> HIDE DEF i
<1>6. /\ i \in 1 .. Len(p) /\ p[i].cmd = cmd
      /\ \A n \in DOMAIN p : p[n].cmd = cmd => i <= n
  BY <1>1, <1>2, <1>5
<1> QED
  BY <1>6 DEF p, w, i

\* A reply's transaction goes: one of the kind that may lead a board from rest only after
\* nothing more of it is on the way, and never the stop's own before what it stops.
LEMMA AnsweredStands ==
  ASSUME NEW k, Wired(k), NEW l \in Links, NEW on, Stands(k, on), NEW i \in 1 .. Len(k.pending[l]),
         \A n \in DOMAIN k.pending[l] : k.pending[l][n].cmd = k.pending[l][i].cmd => i <= n,
         k.pending[l][i].cmd = Kin(l) => ~Going(k.wire[l], l) /\ (on[l] => Led(k.pending[l], l)),
         NEW b, b => k.whole
  PROVE  LET a == [k EXCEPT !.pending[l] = RemoveAt(@, i), !.whole = b]
         IN  Stands(a, on) /\ Wired(a)
<1> DEFINE p == k.pending[l]
           q == RemoveAt(p, i)
           a == [k EXCEPT !.pending[l] = RemoveAt(@, i), !.whole = b]
<1>1. DOMAIN k = Fields /\ DOMAIN k.wire = Links /\ DOMAIN k.pending = Links
  BY DEF Wired
<1>2. /\ a.wire = k.wire /\ a.stopped = k.stopped /\ a.whole = b /\ DOMAIN a = Fields
      /\ a.pending = [k.pending EXCEPT ![l] = q]
  BY <1>1 DEF Fields
<1>3. a.pending[l] = q /\ DOMAIN a.pending = Links /\ \A m \in Links : m # l => a.pending[m] = k.pending[m]
  BY <1>1, <1>2
<1> HIDE DEF a
<1>4. p \in Seq(TxnsOf(l))
  BY DEF Wired
<1>5. q \in Seq(TxnsOf(l))
  BY <1>4, RemovedIsSequence
<1>6. /\ p[i].cmd # Kin(l) => /\ Led(p, l) => Led(q, l)
                              /\ Held(p, l) => Held(q, l)
      /\ Led(p, l) /\ (\A n \in DOMAIN p : p[n].cmd = Kin(l) => i <= n) /\ Held(p, l) => Held(q, l)
      /\ \A n \in DOMAIN q : \E m \in DOMAIN p : q[n] = p[m]
  BY <1>4, RemovedOrder
<1>7. /\ \A n \in DOMAIN p : p[n].cmd = p[i].cmd => i <= n
      /\ p[i].cmd = Kin(l) => ~Going(k.wire[l], l) /\ (on[l] => Led(p, l))
  OBVIOUS
<1> HIDE DEF q
<1>8. Wired(a)
  <2> SUFFICES ASSUME NEW m \in Links PROVE a.pending[m] \in Seq(TxnsOf(m))
    BY <1>1, <1>2, <1>3 DEF Wired
  <2>1. CASE m = l
    BY <1>3, <1>5, <2>1
  <2>2. CASE m # l
    BY <1>3, <2>2 DEF Wired
  <2> QED
    BY <2>1, <2>2
<1>9. Unheld(a)
  <2> SUFFICES ASSUME ~a.stopped, NEW m \in Links, NEW n \in DOMAIN a.pending[m]
               PROVE  "stop" \notin a.pending[m][n].marks
    BY DEF Unheld
  <2>1. \A o \in DOMAIN k.pending[m] : "stop" \notin k.pending[m][o].marks
    BY <1>2 DEF Stands, Unheld
  <2>2. CASE m = l
    <3>1. n \in DOMAIN q /\ a.pending[m][n] = q[n]
      BY <1>3, <2>2
    <3>2. PICK o \in DOMAIN p : q[n] = p[o]
      BY <1>6, <3>1
    <3> QED
      BY <2>1, <2>2, <3>1, <3>2
  <2>3. CASE m # l
    BY <1>3, <2>1, <2>3
  <2> QED
    BY <2>2, <2>3
<1>10. Ahead(k.wire[l], p, l) /\ Stood(k, l, on[l])
  BY DEF Stands, Ordered
<1> HIDE DEF p
<1>11. Ahead(k.wire[l], q, l)
  <2>1. CASE p[i].cmd = Kin(l)
    BY <1>7, <2>1 DEF Ahead
  <2>2. CASE p[i].cmd # Kin(l)
    BY <1>6, <1>10, <2>2 DEF Ahead
  <2> QED
    BY <2>1, <2>2
<1>12. Ordered(a)
  <2> SUFFICES ASSUME NEW m \in Links PROVE Ahead(a.wire[m], a.pending[m], m)
    BY DEF Ordered
  <2>1. CASE m = l
    BY <1>2, <1>3, <1>11, <2>1
  <2>2. CASE m # l
    BY <1>2, <1>3, <2>2 DEF Stands, Ordered
  <2> QED
    BY <2>1, <2>2
<1>13. Stood(a, l, on[l])
  <2> SUFFICES ASSUME a.stopped, on[l] \/ Going(k.wire[l], l), a.whole
               PROVE  Held(q, l)
    BY <1>2, <1>3 DEF Stood
  <2>1. Held(p, l)
    BY <1>2, <1>10 DEF Stood, p
  <2>2. CASE p[i].cmd # Kin(l)
    BY <1>6, <2>1, <2>2
  <2>3. CASE p[i].cmd = Kin(l)
    <3>1. Led(p, l)
      BY <1>7, <2>3
    <3> QED
      BY <1>6, <1>7, <2>1, <2>3, <3>1
  <2> QED
    BY <2>2, <2>3
<1>14. ASSUME NEW m \in Links PROVE Stood(a, m, on[m])
  <2>1. CASE m = l
    BY <1>13, <2>1
  <2>2. CASE m # l
    BY <1>2, <1>3, <2>2 DEF Stands, Stood
  <2> QED
    BY <2>1, <2>2
<1> QED
  BY <1>8, <1>9, <1>12, <1>14 DEF Stands, a

\* What a reply does beyond that keeps what stands, or stops.
LEMMA OnReplyStands ==
  ASSUME NEW k, Wired(k), NEW l \in Links, NEW r, NEW on, Stands(k, on),
         r.cmd = Kin(l) => ~Going(k.wire[l], l) /\ (on[l] => Led(k.pending[l], l))
  PROVE  Stands(OnReply(k, l, r), on) /\ Wired(OnReply(k, l, r))
<1> DEFINE w == Waiting(k, l, r.cmd)
           i == CHOOSE j \in w : \A n \in w : j <= n
           t == k.pending[l][i]
           a == [k EXCEPT !.pending[l] = RemoveAt(@, i),
                          !.whole = @ /\ ("stop" \in t.marks => AcksStop(l, t, r))]
           b == k.whole /\ ("stop" \in t.marks => AcksStop(l, t, r))
           z == [k EXCEPT !.pending[l] = RemoveAt(@, i), !.whole = b]
<1>1. OnReply(k, l, r) = IF w = {} THEN k
                         ELSE IF l = "accel" THEN OnAccelReply(a, t, r) ELSE OnDriveReply(a, t, r)
  BY DEF OnReply
<1>2. a = z /\ (b => k.whole)
  OBVIOUS
<1>3. CASE w = {}
  BY <1>1, <1>3
<1>4. CASE w # {}
  <2>1. k.pending[l] \in Seq(TxnsOf(l))
    BY DEF Wired
  <2>2. /\ i \in 1 .. Len(k.pending[l]) /\ k.pending[l][i].cmd = r.cmd
        /\ \A n \in DOMAIN k.pending[l] : k.pending[l][n].cmd = r.cmd => i <= n
    BY <1>4, <2>1, FirstWaiting
  <2>3. l = "drive" => r.cmd \in {"gear", "brake", "alive", "angles", "steer"}
    <3> HAVE l = "drive"
    <3> DEFINE x == k.pending["drive"][i]
    <3>1. x \in TxnsOf("drive") /\ x.cmd = r.cmd
      BY <2>1, <2>2
    <3> HIDE DEF x
    <3>2. Frame(x.cmd, x.arg) \in DriveFrames
      BY <3>1 DEF TxnsOf, FramesOf, Frame
    <3>3. x.cmd \in {"gear", "brake", "alive", "angles", "steer"}
      BY <3>2 DEF Frame, DriveFrames
    <3> QED
      BY <3>1, <3>3
  <2> HIDE DEF i, b, a
  <2>4. Stands(z, on) /\ Wired(z)
    BY <1>2, <2>2, AnsweredStands
  <2>5. Stands(a, on) /\ Wired(a)
    BY <1>2, <2>4
  <2> HIDE DEF z, w, t
  <2>6. ASSUME NEW d, NEW X, Same(a, d, X), X \cap Core = {}
        PROVE  /\ Stands(d, on) /\ Wired(d)
               /\ \A brake : Stands(Fault(d, brake), on) /\ Wired(Fault(d, brake))
    <3>1. Stands(d, on) /\ Wired(d)
      BY <2>5, <2>6, TouchSettles DEF Settles
    <3> QED
      BY <3>1, FaultStops DEF Stops, Settles, Follows
  <2>7. CASE l = "accel"
    <3> DEFINE e == DutyAcked(a, t, r)
               u == [a EXCEPT !.timeouts = r.count]
    <3>1. Same(a, e, {"acked", "latestAcked", "alive"}) /\ Same(a, u, {"timeouts"}) /\ Same(a, a, {})
      BY <2>5 DEF Same, Wired, DutyAcked
    <3>2. {"acked", "latestAcked", "alive"} \cap Core = {} /\ {"timeouts"} \cap Core = {} /\ {} \cap Core = {}
      BY DEF Core
    <3>3. OnReply(k, l, r) \in {a, e, u, Fault(a, FALSE), Fault(u, FALSE)}
      BY <1>1, <1>4, <2>7 DEF OnAccelReply, ReadBack
    <3> HIDE DEF e, u
    <3>4. Stands(e, on) /\ Wired(e)
      BY <2>6, <3>1, <3>2
    <3>5. Stands(u, on) /\ Wired(u) /\ Stands(Fault(u, FALSE), on) /\ Wired(Fault(u, FALSE))
      BY <2>6, <3>1, <3>2
    <3>6. Stands(Fault(a, FALSE), on) /\ Wired(Fault(a, FALSE))
      BY <2>6, <3>1, <3>2
    <3> QED
      BY <2>5, <3>3, <3>4, <3>5, <3>6
  <2>8. CASE l = "drive"
    <3> DEFINE g == [a EXCEPT !.gear = IF r.ok THEN t.arg ELSE "unknown"]
               e == [a EXCEPT !.applied = FALSE]
               u == [a EXCEPT !.trips = r.count]
               v == [u EXCEPT !.announced = FALSE]
               p == [a EXCEPT !.at = r.at, !.readAge = 0]
    <3>1. /\ Same(a, a, {}) /\ Same(a, g, {"gear"}) /\ Same(a, e, {"applied"}) /\ Same(a, u, {"trips"})
          /\ Same(a, v, {"trips", "announced"}) /\ Same(a, p, {"at", "readAge"})
      BY <2>5 DEF Same, Wired
    <3>2. /\ {} \cap Core = {} /\ {"gear"} \cap Core = {} /\ {"applied"} \cap Core = {}
          /\ {"trips"} \cap Core = {} /\ {"trips", "announced"} \cap Core = {}
          /\ {"at", "readAge"} \cap Core = {}
      BY DEF Core
    <3>3. OnReply(k, l, r) = OnDriveReply(a, t, r) /\ r.cmd \in {"gear", "brake", "alive", "angles", "steer"}
      BY <1>1, <1>4, <2>3, <2>8
    <3>4. OnReply(k, l, r) \in {a, g, e, u, v, p, Fault(a, TRUE), Fault(u, FALSE)}
      <4>1. CASE r.cmd = "gear"
        BY <3>3, <4>1 DEF OnDriveReply
      <4>2. CASE r.cmd = "brake"
        BY <3>3, <4>2 DEF OnDriveReply, OnBrakeReply
      <4>3. CASE r.cmd = "alive"
        BY <3>3, <4>3 DEF OnDriveReply, NoteTrips
      <4>4. CASE r.cmd = "angles"
        BY <3>3, <4>4 DEF OnDriveReply
      <4>5. CASE r.cmd = "steer"
        BY <3>3, <4>5 DEF OnDriveReply
      <4> QED
        BY <3>3, <4>1, <4>2, <4>3, <4>4, <4>5
    <3> HIDE DEF g, e, u, v, p
    <3>5. Stands(g, on) /\ Wired(g)
      BY <2>6, <3>1, <3>2
    <3>6. Stands(e, on) /\ Wired(e)
      BY <2>6, <3>1, <3>2
    <3>7. Stands(u, on) /\ Wired(u) /\ Stands(Fault(u, FALSE), on) /\ Wired(Fault(u, FALSE))
      BY <2>6, <3>1, <3>2
    <3>8. Stands(v, on) /\ Wired(v)
      BY <2>6, <3>1, <3>2
    <3>9. Stands(p, on) /\ Wired(p)
      BY <2>6, <3>1, <3>2
    <3>10. Stands(Fault(a, TRUE), on) /\ Wired(Fault(a, TRUE))
      BY <2>6, <3>1, <3>2
    <3> QED
      BY <2>5, <3>4, <3>5, <3>6, <3>7, <3>8, <3>9, <3>10
  <2> QED
    BY <2>7, <2>8 DEF Links
<1> QED
  BY <1>3, <1>4

LEMMA OnLineStands ==
  ASSUME NEW k, Wired(k), NEW l \in Links, NEW r, NEW on, Stands(k, on),
         r.cmd = Kin(l) => ~Going(k.wire[l], l) /\ (on[l] => Led(k.pending[l], l))
  PROVE  Stands(OnLine(k, l, r), on) /\ Wired(OnLine(k, l, r))
<1> DEFINE h == IF l = "accel" THEN [k EXCEPT !.heard = TRUE] ELSE k
           v == [h EXCEPT !.announced = TRUE]
<1>1. OnLine(k, l, r) = IF r.cmd = "trip" THEN Fault(v, FALSE) ELSE OnReply(h, l, r)
  BY DEF OnLine
<1>2. /\ Same(k, h, {"heard"}) /\ Same(k, v, {"heard", "announced"})
      /\ {"heard"} \cap Core = {} /\ {"heard", "announced"} \cap Core = {}
  BY DEF Same, Wired, Core
<1> HIDE DEF h, v
<1>3. Stands(h, on) /\ Wired(h) /\ h.wire = k.wire /\ h.pending = k.pending
  BY <1>2, TouchSettles DEF Settles
<1>4. Stands(v, on) /\ Wired(v)
  BY <1>2, TouchSettles DEF Settles
<1>5. Stands(Fault(v, FALSE), on) /\ Wired(Fault(v, FALSE))
  BY <1>4, FaultStops DEF Stops, Settles, Follows
<1>6. Stands(OnReply(h, l, r), on) /\ Wired(OnReply(h, l, r))
  BY <1>3, OnReplyStands
<1> QED
  BY <1>1, <1>5, <1>6

LEMMA LinkLostSettles ==
  ASSUME NEW k, Wired(k), NEW l
  PROVE  Settles(k, LinkLost(k, l)) /\ Wired(LinkLost(k, l))
<1> DEFINE u == [k EXCEPT !.up[l] = FALSE]
<1>1. Same(k, u, {"up"}) /\ {"up"} \cap Core = {}
  BY DEF Same, Wired, Core
<1> HIDE DEF u
<1>2. Settles(k, u) /\ Wired(u)
  BY <1>1, TouchSettles
<1>3. Settles(u, Fault(u, TRUE))
  BY <1>2, FaultStops DEF Stops
<1>4. Settles(k, Fault(u, TRUE)) /\ Wired(Fault(u, TRUE))
  BY <1>2, <1>3, SettlesTwice DEF Settles, Follows
<1> QED
  BY <1>4 DEF LinkLost, u

------------------------------------------------------------------------------
(* tick(), with nothing on the way.                                          *)

LEMMA DeadlineStands ==
  ASSUME NEW k, Wired(k), Calmed(k), NEW l \in Links, NEW on, Stands(k, on)
  PROVE  LET d == Deadline(k, l)
         IN  Wired(d) /\ Calmed(d) /\ Stands(d, on)
<1> DEFINE a == [k EXCEPT !.pending[l] = <<>>, !.alive = @ /\ l # "accel"]
           d == Deadline(k, l)
<1>1. d \in {Fault(a, TRUE), k}
  BY DEF Deadline
<1>2. DOMAIN k = Fields /\ DOMAIN k.wire = Links /\ DOMAIN k.pending = Links
  BY DEF Wired
<1>3. a.wire = k.wire /\ a.pending = [k.pending EXCEPT ![l] = <<>>] /\ DOMAIN a = Fields
  BY <1>2 DEF Fields
<1> HIDE DEF a, d
<1>4. Wired(a)
  <2> SUFFICES ASSUME NEW m \in Links PROVE a.pending[m] \in Seq(TxnsOf(m))
    BY <1>2, <1>3 DEF Wired
  <2>1. <<>> \in Seq(TxnsOf(m))
    OBVIOUS
  <2>2. CASE m = l
    BY <1>2, <1>3, <2>1, <2>2
  <2>3. CASE m # l
    BY <1>2, <1>3, <2>3 DEF Wired
  <2> QED
    BY <2>2, <2>3
<1>5. Calmed(a) /\ Ordered(a)
  BY <1>3 DEF Calmed, Ordered, Ahead
<1>6. LET x == Fault(a, TRUE)
      IN  Wired(x) /\ Calmed(x) /\ Stands(x, on)
  BY <1>4, <1>5, FaultStops DEF Stops, Follows, Calmed
<1> QED
  BY <1>1, <1>6 DEF d

LEMMA TickSettles ==
  ASSUME NEW k, NEW a, Settles(k, a)
  PROVE  LET h == HeartbeatChecked(a)
             e == DriveKeptAlive(a)
             p == AccelProbed(a)
             q == Polled(a)
             b == BrakeBounded(a)
         IN  Settles(k, h) /\ Settles(k, e) /\ Settles(k, p) /\ Settles(k, q) /\ Settles(k, b)
<1>0. Wired(a)
  BY DEF Settles, Follows
<1> DEFINE s == SafeStop(a, TRUE)
<1>1. Settles(k, s) /\ HeartbeatChecked(a) \in {s, a}
  <2>1. Settles(a, s)
    BY <1>0, SafeStopStops DEF Stops
  <2>2. Settles(k, s)
    BY <2>1, SettlesTwice
  <2> QED
    BY <2>2 DEF HeartbeatChecked
<1> DEFINE x == Write(a, "drive", "alive", "", {})
           m == [a EXCEPT !.moving = FALSE]
           y == Write(m, "drive", "brake", "stop", {})
<1>2. Same(a, m, {"moving"}) /\ {"moving"} \cap Core = {}
  BY <1>0 DEF Same, Wired, Core
<1>3. Settles(k, DriveKeptAlive(a))
  <2>1. DriveKeptAlive(a) \in {x, y, a}
    BY DEF DriveKeptAlive
  <2> HIDE DEF m
  <2>2. Settles(k, m)
    BY <1>2, TouchAfter
  <2>3. Settles(k, x) /\ Settles(k, y)
    BY <2>2, OtherFrames, WriteSettles
  <2> HIDE DEF x, y
  <2> QED
    BY <2>1, <2>3
<1> DEFINE z == Write(a, "accel", "alive", "", {})
           t == Write(a, "accel", "read", "", {})
<1>4. Settles(k, AccelProbed(a))
  <2>1. AccelProbed(a) \in {z, t, a}
    BY DEF AccelProbed
  <2>2. Settles(k, z) /\ Settles(k, t)
    BY OtherFrames, WriteSettles
  <2> HIDE DEF z, t
  <2> QED
    BY <2>1, <2>2
<1> DEFINE r == Write(a, "drive", "angles", "", {})
<1>5. Settles(k, Polled(a))
  <2>1. Polled(a) \in {r, a}
    BY DEF Polled
  <2>2. Settles(k, r)
    BY OtherFrames, WriteSettles
  <2> HIDE DEF r
  <2> QED
    BY <2>1, <2>2
<1> DEFINE u == [a EXCEPT !.moveDir = "none", !.moveAge = 0]
           v == [a EXCEPT !.moveDir = "none", !.moveAge = 0, !.moving = FALSE]
           w == Write(v, "drive", "brake", "stop", {})
           f == Fault(w, TRUE)
           X == {"moveDir", "moveAge", "moving"}
<1>6. Settles(k, BrakeBounded(a))
  <2>1. BrakeBounded(a) \in {a, u, w, f}
    BY DEF BrakeBounded
  <2>2. Same(a, u, X) /\ Same(a, v, X) /\ X \cap Core = {}
    BY <1>0 DEF Same, Wired, Core
  <2> HIDE DEF u, v, X
  <2>3. Settles(k, u) /\ Settles(k, v)
    BY <2>2, TouchAfter
  <2>4. Settles(k, w) /\ Wired(w)
    BY <2>3, OtherFrames, WriteSettles
  <2> HIDE DEF w
  <2>5. Settles(w, f)
    BY <2>4, FaultStops DEF Stops
  <2> HIDE DEF f
  <2>6. Settles(k, f)
    BY <2>4, <2>5, SettlesTwice
  <2> QED
    BY <2>1, <2>3, <2>4, <2>6
<1> HIDE DEF s
<1>7. Settles(k, HeartbeatChecked(a))
  BY <1>1
<1> QED
  BY <1>3, <1>4, <1>5, <1>6, <1>7

LEMMA TickStands ==
  ASSUME NEW k, Wired(k), Calmed(k), NEW on, Stands(k, on)
  PROVE  Stands(Tick(k), on) /\ Wired(Tick(k))
<1> DEFINE k1 == Deadline(k, "accel")
           k2 == Deadline(k1, "drive")
           k3 == HeartbeatChecked(k2)
           k4 == DriveKeptAlive(k3)
           k5 == AccelProbed(k4)
           k6 == Polled(k5)
           k7 == BrakeBounded(k6)
           d == [k7 EXCEPT !.ticked = TRUE]
<1>1. Tick(k) = d
  BY DEF Tick
<1>2. Wired(k1) /\ Calmed(k1) /\ Stands(k1, on)
  BY DeadlineStands DEF Links
<1> HIDE DEF k1
<1>3. Wired(k2) /\ Stands(k2, on)
  BY <1>2, DeadlineStands DEF Links
<1> HIDE DEF k2
<1>4. Settles(k2, k2)
  BY <1>3, SettlesSelf
<1>5. Settles(k2, k3)
  BY <1>4, TickSettles
<1> HIDE DEF k3
<1>6. Settles(k2, k4)
  BY <1>5, TickSettles
<1> HIDE DEF k4
<1>7. Settles(k2, k5)
  BY <1>6, TickSettles
<1> HIDE DEF k5
<1>8. Settles(k2, k6)
  BY <1>7, TickSettles
<1> HIDE DEF k6
<1>9. Settles(k2, k7) /\ DOMAIN k7 = Fields
  BY <1>8, TickSettles DEF Settles, Follows, Wired
<1> HIDE DEF k7
<1>10. Same(k7, d, {"ticked"}) /\ {"ticked"} \cap Core = {}
  BY <1>9 DEF Same, Core
<1> HIDE DEF d
<1>11. Settles(k2, d) /\ Wired(d)
  BY <1>9, <1>10, TouchAfter
<1> QED
  BY <1>1, <1>3, <1>11 DEF Settles

------------------------------------------------------------------------------
(* The rig, without a slow link.                                             *)

\* What the boards have on.
Moving(t, d) == [l \in Links |-> IF l = "accel" THEN t.duty = "positive" ELSE d.steer = "turn"]

AckInv ==
    /\ slow = {} /\ call = Idle /\ \A l \in Links : lines[l] = <<>>
    /\ Stands(c, Moving(throttle, drive))

LEMMA WeakerStands ==
  ASSUME NEW k, NEW a, NEW b, Stands(k, a), \A l \in Links : b[l] => a[l]
  PROVE  Stands(k, b)
BY DEF Stands, Stood

LEMMA WiredNow ==
  ASSUME RigInv
  PROVE  Wired(c) /\ Wired(Fed) /\ Settles(c, Fed) /\ Same(c, Fed, {"hb"})
<1>1. Wired(c)
  BY ControlsRigged, TypedIsWired
<1>2. Same(c, Fed, {"hb"}) /\ {"hb"} \cap Core = {}
  BY <1>1 DEF Same, Wired, Core, Fed
<1> QED
  BY <1>1, <1>2, TouchSettles

\* Neither board did anything, and nobody is slow.
LEMMA AckStep ==
  ASSUME AckInv, NEW k, Wired(c), Settles(c, k), c' = k, call' = Idle, slow' = {},
         \A l \in Links : lines'[l] = <<>>, throttle' = throttle, drive'.steer = drive.steer
  PROVE  AckInv'
<1>1. Stands(c', Moving(throttle, drive))
  BY DEF AckInv, Settles
<1>2. Moving(throttle', drive') = Moving(throttle, drive)
  BY DEF Moving
<1>3. Stands(c', Moving(throttle', drive'))
  BY <1>1, <1>2
<1> QED
  BY <1>3 DEF AckInv

LEMMA NothingWaits ==
  ASSUME AckInv, Served
  PROVE  \A l \in Links : c.wire[l] = <<>> /\ DOMAIN c.wire[l] = {}
BY DEF AckInv, Served

\* Nothing of a board's kind is on its way, as far as the command has yet to send one.
Hush(k) ==
    k.stopped = TRUE \/ (NoKin(k, "drive") /\ (k.applied = TRUE \/ NoKin(k, "accel")))
SteerHush(k) == k.stopped = TRUE \/ NoKin(k, "drive")

LEMMA TryGearStands ==
  ASSUME NEW x, Wired(x.c), Hush(x.c), NEW on, Stands(x.c, on), NEW cmd, cmd.gear \in {"D", "N"}
  PROVE  LET y == TryGear(x, cmd) IN Wired(y.c) /\ Hush(y.c) /\ Stands(y.c, on)
<1> DEFINE k == x.c
           d == Gear(k, cmd.gear)
<1>1. CASE cmd.gear # x.a.gear /\ CanGear(x.c)
  <2>1. TryGear(x, cmd).c = d
    BY <1>1 DEF TryGear
  <2>2. /\ Settles(k, d) /\ Wired(d)
        /\ \/ d.stopped = TRUE
           \/ d.applied = k.applied /\ \A l \in Links : NoKin(k, l) => NoKin(d, l)
    BY GearSettles
  <2>3. k.stopped # TRUE
    BY <1>1 DEF CanGear, Open
  <2> HIDE DEF d, k
  <2>4. Hush(k) /\ Stands(k, on)
    BY DEF k
  <2>5. Hush(d)
    BY <2>2, <2>3, <2>4 DEF Hush, Links
  <2> QED
    BY <2>1, <2>2, <2>4, <2>5 DEF Settles
<1>2. CASE ~(cmd.gear # x.a.gear /\ CanGear(x.c))
  BY <1>2 DEF TryGear
<1> QED
  BY <1>1, <1>2

LEMMA TryBrakeStands ==
  ASSUME NEW x, Wired(x.c), Hush(x.c), NEW on, Stands(x.c, on), NEW cmd
  PROVE  LET y == TryBrake(x, cmd) IN Wired(y.c) /\ Hush(y.c) /\ Stands(y.c, on)
<1> DEFINE k == x.c
           a == ApplyBrake(k)
           r == ReleaseBrake(k)
<1>1. CASE cmd.brake /\ x.a.brake # "held"
  <2>1. TryBrake(x, cmd).c = a
    BY <1>1 DEF TryBrake
  <2>2. /\ Settles(k, a) /\ Wired(a)
        /\ \/ a.stopped = TRUE
           \/ /\ a.applied = TRUE /\ a.stopped = k.stopped
              /\ NoKin(k, "drive") => NoKin(a, "drive")
    BY ApplySettles
  <2> HIDE DEF a, k
  <2>3. Hush(k) /\ Stands(k, on)
    BY DEF k
  <2>4. Hush(a)
    BY <2>2, <2>3 DEF Hush
  <2> QED
    BY <2>1, <2>2, <2>3, <2>4 DEF Settles
<1>2. CASE ~(cmd.brake /\ x.a.brake # "held") /\ ~cmd.brake /\ x.a.brake # "free" /\ CanRelease(x.c)
  <2>1. TryBrake(x, cmd).c = r
    BY <1>2 DEF TryBrake
  <2>2. /\ Settles(k, r) /\ Wired(r)
        /\ \/ r.stopped = TRUE
           \/ r.applied = k.applied /\ \A l \in Links : NoKin(k, l) => NoKin(r, l)
    BY ReleaseSettles
  <2>3. k.stopped # TRUE
    BY <1>2 DEF CanRelease, Open
  <2> HIDE DEF r, k
  <2>4. Hush(k) /\ Stands(k, on)
    BY DEF k
  <2>5. Hush(r)
    BY <2>2, <2>3, <2>4 DEF Hush, Links
  <2> QED
    BY <2>1, <2>2, <2>4, <2>5 DEF Settles
<1>3. CASE /\ ~(cmd.brake /\ x.a.brake # "held")
           /\ ~(~cmd.brake /\ x.a.brake # "free" /\ CanRelease(x.c))
  BY <1>3 DEF TryBrake
<1> QED
  BY <1>1, <1>2, <1>3

LEMMA TryThrottleStands ==
  ASSUME NEW x, Wired(x.c), Hush(x.c), NEW on, Stands(x.c, on), NEW cmd, cmd.throttle \in Duties
  PROVE  LET y == TryThrottle(x, cmd) IN Wired(y.c) /\ SteerHush(y.c) /\ Stands(y.c, on)
<1> DEFINE k == x.c
           p == SetThrottle(k, "positive")
           m == [k EXCEPT !.duty = "zero"]
           z == WriteDuty(m, "zero")
<1>0. Wired(k) /\ Hush(k) /\ Stands(k, on)
  OBVIOUS
<1>1. CASE /\ cmd.throttle # x.a.duty /\ (cmd.throttle = "positive" => CanThrottle(x.c))
           /\ cmd.throttle = "positive"
  <2>1. TryThrottle(x, cmd).c = p
    BY <1>1 DEF TryThrottle
  <2>2. ~k.stopped /\ ~k.applied
    BY <1>1 DEF CanThrottle, Open
  <2> HIDE DEF k
  <2>3. NoKin(k, "accel") /\ NoKin(k, "drive")
    BY <1>0, <2>2 DEF Hush
  <2>4. Stands(p, on) /\ Wired(p) /\ (p.stopped = TRUE \/ p.wire["drive"] = k.wire["drive"])
    BY <1>0, <2>2, <2>3, ThrottleStands
  <2> HIDE DEF p
  <2>5. SteerHush(p)
    BY <2>3, <2>4 DEF SteerHush, NoKin
  <2> QED
    BY <2>1, <2>4, <2>5
<1>2. CASE cmd.throttle # x.a.duty /\ cmd.throttle = "zero"
  <2>1. TryThrottle(x, cmd).c = z
    BY <1>2 DEF TryThrottle, SetThrottle
  <2> HIDE DEF k
  <2>2. Same(k, m, {"duty"}) /\ {"duty"} \cap Core = {} /\ m.wire = k.wire /\ m.stopped = k.stopped
    BY <1>0 DEF Same, Wired, Core, Fields
  <2> HIDE DEF m
  <2>3. Settles(k, m) /\ Wired(m)
    BY <1>0, <2>2, TouchSettles
  <2>4. Settles(k, z) /\ Wired(z)
    BY <2>3, WriteDutySettles
  <2>5. \/ z.stopped = TRUE
        \/ /\ z.applied = m.applied /\ z.stopped = m.stopped
           /\ NoKin(m, "drive") => NoKin(z, "drive")
    BY <2>3, WriteDutyQuiet
  <2> HIDE DEF z
  <2>6. NoKin(k, "drive") => NoKin(m, "drive")
    BY <2>2 DEF NoKin
  <2>7. SteerHush(z)
    BY <1>0, <2>2, <2>5, <2>6 DEF SteerHush, Hush
  <2> QED
    BY <1>0, <2>1, <2>4, <2>7 DEF Settles
<1>3. CASE ~(cmd.throttle # x.a.duty /\ (cmd.throttle = "positive" => CanThrottle(x.c)))
  <2>1. TryThrottle(x, cmd).c = k
    BY <1>3 DEF TryThrottle
  <2> HIDE DEF k
  <2> QED
    BY <1>0, <2>1 DEF Hush, SteerHush
<1> QED
  BY <1>1, <1>2, <1>3 DEF Duties

LEMMA TrySteerStands ==
  ASSUME NEW x, Wired(x.c), SteerHush(x.c), NEW on, Stands(x.c, on), NEW cmd, cmd.steer \in {"stop", "turn"}
  PROVE  LET y == TrySteer(x, cmd) IN Wired(y.c) /\ Stands(y.c, on)
<1> DEFINE k == x.c
           d == Steer(k, cmd.steer)
<1>1. CASE cmd.steer # x.a.steer /\ CanSteer(x.c, cmd.steer)
  <2>1. TrySteer(x, cmd).c = d
    BY <1>1 DEF TrySteer
  <2>2. cmd.steer = "turn" => ~k.stopped
    BY <1>1 DEF CanSteer, Open
  <2>3. cmd.steer = "turn" => NoKin(k, "drive")
    BY <2>2 DEF SteerHush
  <2>4. Stands(d, on) /\ Wired(d)
    BY <2>2, <2>3, SteerStands
  <2> QED
    BY <2>1, <2>4
<1>2. CASE ~(cmd.steer # x.a.steer /\ CanSteer(x.c, cmd.steer))
  BY <1>2 DEF TrySteer
<1> QED
  BY <1>1, <1>2

LEMMA CommandAcks ==
  ASSUME RigInv, AckInv, NEW cmd \in Commands, Command(cmd)
  PROVE  AckInv'
<1> DEFINE on == Moving(throttle, drive)
           x0 == [c |-> Fed, a |-> adapter]
           x1 == TryGear(x0, cmd)
           x2 == TryBrake(x1, cmd)
           x3 == TryThrottle(x2, cmd)
           x4 == TrySteer(x3, cmd)
<1>1. /\ c' = x4.c /\ call' = call /\ lines' = lines /\ slow' = slow /\ throttle' = throttle /\ drive' = drive
      /\ Served
  BY DEF Command, AckInv, Both, Applied
<1>2. cmd.gear \in {"D", "N"} /\ cmd.steer \in {"stop", "turn"} /\ cmd.throttle \in Duties
  BY RigAssumption DEF Commands
<1>3. Wired(x0.c) /\ Stands(x0.c, on) /\ Hush(x0.c)
  <2>1. Wired(Fed) /\ Stands(Fed, on) /\ Fed.wire = c.wire
    BY WiredNow DEF Settles, AckInv, Same, Fields
  <2>2. NoKin(Fed, "accel") /\ NoKin(Fed, "drive")
    BY <1>1, <2>1, NothingWaits DEF NoKin, Links
  <2> QED
    BY <2>1, <2>2 DEF Hush
<1> HIDE DEF x0, on
<1>4. Wired(x1.c) /\ Hush(x1.c) /\ Stands(x1.c, on)
  BY <1>2, <1>3, TryGearStands
<1> HIDE DEF x1
<1>5. Wired(x2.c) /\ Hush(x2.c) /\ Stands(x2.c, on)
  BY <1>4, TryBrakeStands
<1> HIDE DEF x2
<1>6. Wired(x3.c) /\ SteerHush(x3.c) /\ Stands(x3.c, on)
  BY <1>2, <1>5, TryThrottleStands
<1> HIDE DEF x3
<1>7. Stands(x4.c, on)
  BY <1>2, <1>6, TrySteerStands
<1> HIDE DEF x4
<1> QED
  BY <1>1, <1>7 DEF AckInv, on

\* Stops, the operator's calls, the tick, and a reader that meets a broken port.
LEMMA CallsAck ==
  ASSUME RigInv, AckInv, EstopHeld \/ BridgeStops \/ Resume \/ HumanClears \/ TickRuns
  PROVE  AckInv'
<1>0. /\ Wired(c) /\ Wired(Fed) /\ Settles(c, Fed) /\ call = Idle /\ slow = {}
      /\ \A l \in Links : lines[l] = <<>>
  BY WiredNow DEF AckInv
<1>1. CASE EstopHeld
  <2>1. /\ c' = SafeStop(Fed, TRUE) /\ call' = call /\ slow' = slow /\ lines' = lines
        /\ throttle' = throttle /\ drive' = drive
    BY <1>1 DEF EstopHeld, Stop, Both, Stopping
  <2>2. Settles(Fed, SafeStop(Fed, TRUE))
    BY <1>0, SafeStopStops DEF Stops
  <2>3. Settles(c, SafeStop(Fed, TRUE))
    BY <1>0, <2>2, SettlesTwice
  <2> QED
    BY <1>0, <2>1, <2>3, AckStep
<1>2. CASE BridgeStops
  <2>1. /\ c' = SafeStop(c, TRUE) /\ call' = call /\ slow' = slow /\ lines' = lines
        /\ throttle' = throttle /\ drive' = drive
    BY <1>2 DEF BridgeStops, Stop, Both, Stopping
  <2>2. Settles(c, SafeStop(c, TRUE))
    BY <1>0, SafeStopStops DEF Stops
  <2> QED
    BY <1>0, <2>1, <2>2, AckStep
<1>3. CASE Resume
  <2>1. /\ c' = Unlatched(c) /\ call' = call /\ slow' = slow /\ lines' = lines
        /\ throttle' = throttle /\ drive' = drive
    BY <1>3 DEF Resume
  <2>2. Settles(c, Unlatched(c))
    BY <1>0, UnlatchedSettles
  <2> QED
    BY <1>0, <2>1, <2>2, AckStep
<1>4. CASE HumanClears
  <2>1. /\ c' = ClearFaults(c) /\ call' = call /\ slow' = slow /\ lines' = lines
        /\ throttle' = throttle /\ drive' = drive
    BY <1>4 DEF HumanClears
  <2>2. Settles(c, ClearFaults(c))
    BY <1>0, ClearSettles
  <2> QED
    BY <1>0, <2>1, <2>2, AckStep
<1>5. CASE TickRuns
  <2>1. /\ c' = Tick(c) /\ call' = call /\ slow' = slow /\ lines' = lines
        /\ throttle' = throttle /\ drive' = drive /\ Served
    BY <1>5 DEF TickRuns
  <2>2. Calmed(c)
    BY <2>1, NothingWaits DEF Calmed, Going
  <2>3. Stands(Tick(c), Moving(throttle, drive))
    BY <1>0, <2>2, TickStands DEF AckInv
  <2> QED
    BY <1>0, <2>1, <2>3 DEF AckInv
<1> QED
  BY <1>1, <1>2, <1>3, <1>4, <1>5

\* A frame off the wire: what stands with the board as it was stands with the board that
\* took it, and an answer of the board's kind finds nothing more on the way.
LEMMA UntakenOrder ==
  ASSUME NEW l \in Links, NEW v \in Seq(FramesOf(l)), v # <<>>, NEW p, Ahead(v, p, l), NEW w, w = Tail(v),
         NEW f, f = Head(v)
  PROVE  /\ Ahead(w, p, l) /\ (Going(w, l) => Going(v, l)) /\ (f = GoFrame(l) => Going(v, l))
         /\ f.cmd = Kin(l) => ~Going(w, l)
         /\ f = GoFrame(l) => Led(p, l)
<1>1. /\ DOMAIN v = 1 .. Len(v) /\ Len(v) \in Nat /\ Len(v) >= 1 /\ f = v[1]
      /\ DOMAIN w = 1 .. Len(v) - 1 /\ \A i \in 1 .. Len(v) - 1 : w[i] = v[i + 1]
  <2>1. v # <<>> /\ v \in Seq(FramesOf(l))
    OBVIOUS
  <2> QED
    BY <2>1, HeadTailProperties
<1>2. ASSUME NEW i \in DOMAIN w PROVE i + 1 \in DOMAIN v /\ w[i] = v[i + 1]
  BY <1>1
<1>3. Going(w, l) => Going(v, l)
  BY <1>2 DEF Going
<1>4. f = GoFrame(l) => Going(v, l)
  BY <1>1 DEF Going
<1>5. f = GoFrame(l) => Led(p, l)
  BY <1>4 DEF Ahead
<1>6. ASSUME f.cmd = Kin(l) PROVE ~Going(w, l)
  <2> SUFFICES ASSUME NEW i \in DOMAIN w, w[i] = GoFrame(l) PROVE FALSE
    BY DEF Going
  <2>1. i + 1 \in DOMAIN v /\ v[i + 1] = GoFrame(l) /\ 1 \in DOMAIN v /\ 1 < i + 1
    BY <1>1, <1>2
  <2>2. Going(v, l)
    BY <2>1 DEF Going
  <2>3. v[1].cmd # Kin(l)
    BY <2>1, <2>2 DEF Ahead
  <2> QED
    BY <1>1, <1>6, <2>3
<1>7. Ahead(w, p, l)
  <2> SUFFICES ASSUME Going(w, l)
               PROVE  /\ Led(p, l)
                      /\ \A i \in DOMAIN w : w[i] = GoFrame(l) => \A j \in DOMAIN w : j < i => w[j].cmd # Kin(l)
    BY DEF Ahead
  <2>1. /\ Led(p, l)
        /\ \A i \in DOMAIN v : v[i] = GoFrame(l) => \A j \in DOMAIN v : j < i => v[j].cmd # Kin(l)
    BY <1>3 DEF Ahead
  <2>2. ASSUME NEW i \in DOMAIN w, w[i] = GoFrame(l), NEW j \in DOMAIN w, j < i PROVE w[j].cmd # Kin(l)
    <3>1. /\ i + 1 \in DOMAIN v /\ v[i + 1] = GoFrame(l) /\ j + 1 \in DOMAIN v /\ w[j] = v[j + 1]
          /\ j + 1 < i + 1
      BY <1>1, <1>2, <2>2
    <3> QED
      BY <2>1, <3>1
  <2> QED
    BY <2>1, <2>2
<1> QED
  BY <1>3, <1>4, <1>5, <1>6, <1>7

\* A board is on (b) only where it was (a), or where this frame took it from rest.
OnWith(b, a, l, f) == \A m \in Links : b[m] => a[m] \/ (m = l /\ f = GoFrame(l))

LEMMA UntakenStands ==
  ASSUME NEW k, Wired(k), NEW l \in Links, k.wire[l] # <<>>, NEW a, Stands(k, a), NEW f, f = Head(k.wire[l]),
         NEW b, OnWith(b, a, l, f),
         NEW d, d = [k EXCEPT !.wire[l] = Tail(@)]
  PROVE  /\ Wired(d) /\ Stands(d, b)
         /\ f.cmd = Kin(l) /\ (f # GoFrame(l) => ~b[l]) =>
               ~Going(d.wire[l], l) /\ (b[l] => Led(d.pending[l], l))
<1> DEFINE v == k.wire[l]
           w == Tail(v)
           p == k.pending[l]
<1>1. DOMAIN k = Fields /\ DOMAIN k.wire = Links /\ DOMAIN k.pending = Links
  BY DEF Wired
<1>2. /\ d.pending = k.pending /\ d.stopped = k.stopped /\ d.whole = k.whole /\ DOMAIN d = Fields
      /\ d.wire = [k.wire EXCEPT ![l] = w]
  BY <1>1 DEF Fields
<1>3. d.wire[l] = w /\ DOMAIN d.wire = Links /\ \A m \in Links : m # l => d.wire[m] = k.wire[m]
  BY <1>1, <1>2
<1>4. v \in Seq(FramesOf(l)) /\ v # <<>> /\ f = Head(v) /\ w = Tail(v) /\ Ahead(v, p, l)
  BY DEF Wired, Stands, Ordered
<1>5. w \in Seq(FramesOf(l))
  BY <1>4, HeadTailProperties
<1>6. d.pending[l] = p
  BY <1>2
<1>7. f = Head(k.wire[l]) /\ v = k.wire[l]
  OBVIOUS
<1> HIDE DEF v, w, p
<1>8. /\ Ahead(w, p, l) /\ (Going(w, l) => Going(v, l)) /\ (f = GoFrame(l) => Going(v, l))
      /\ f.cmd = Kin(l) => ~Going(w, l)
      /\ f = GoFrame(l) => Led(p, l)
  BY <1>4, UntakenOrder
<1>9. Wired(d)
  <2> SUFFICES ASSUME NEW m \in Links PROVE d.wire[m] \in Seq(FramesOf(m)) /\ d.pending[m] \in Seq(TxnsOf(m))
    BY <1>1, <1>2, <1>3 DEF Wired
  <2>1. CASE m = l
    BY <1>2, <1>3, <1>5, <2>1 DEF Wired
  <2>2. CASE m # l
    BY <1>2, <1>3, <2>2 DEF Wired
  <2> QED
    BY <2>1, <2>2
<1>10. Ordered(d)
  <2> SUFFICES ASSUME NEW m \in Links PROVE Ahead(d.wire[m], d.pending[m], m)
    BY DEF Ordered
  <2>1. CASE m = l
    BY <1>3, <1>6, <1>8, <2>1
  <2>2. CASE m # l
    BY <1>2, <1>3, <2>2 DEF Stands, Ordered
  <2> QED
    BY <2>1, <2>2
<1>11. Unheld(d)
  BY <1>2 DEF Stands, Unheld
<1>12. ASSUME NEW m \in Links PROVE Stood(d, m, b[m])
  <2>1. Stood(k, m, a[m])
    BY DEF Stands
  <2>2. CASE m = l
    <3>1. b[m] \/ Going(d.wire[m], m) => a[m] \/ Going(k.wire[m], m)
      BY <1>3, <1>7, <1>8, <2>2 DEF OnWith
    <3> QED
      BY <1>2, <2>1, <3>1 DEF Stood
  <2>3. CASE m # l
    <3>1. d.wire[m] = k.wire[m] /\ (b[m] => a[m])
      BY <1>3, <2>3 DEF OnWith
    <3> QED
      BY <1>2, <2>1, <3>1 DEF Stood
  <2> QED
    BY <2>2, <2>3
<1>13. Stands(d, b)
  BY <1>10, <1>11, <1>12 DEF Stands
<1>14. ASSUME f.cmd = Kin(l), f # GoFrame(l) => ~b[l] PROVE ~Going(d.wire[l], l) /\ (b[l] => Led(d.pending[l], l))
  BY <1>3, <1>6, <1>8, <1>14
<1> QED
  BY <1>9, <1>13, <1>14

LEMMA ThrottleGoes ==
  ASSUME NEW b \in ThrottleBoards, NEW f \in AccelFrames
  PROVE  LET t == ThrottleTakes(b, f)
         IN  /\ t.duty = "positive" => b.duty = "positive" \/ f = GoFrame("accel")
             /\ f.cmd = Kin("accel") /\ f # GoFrame("accel") => t.duty # "positive"
<1>1. /\ f = [cmd |-> f.cmd, arg |-> f.arg] /\ (f.cmd = "duty" => f.arg \in {"zero", "positive"})
      /\ Kin("accel") = "duty" /\ GoFrame("accel") = [cmd |-> "duty", arg |-> "positive"]
  BY DEF AccelFrames, Frame, Duties, Kin, GoFrame
<1> DEFINE r == IF Refreshes(b, f) THEN [b EXCEPT !.quiet = 0] ELSE b
           t == ThrottleTakes(b, f)
<1>2. r.duty = b.duty /\ DOMAIN r = DOMAIN b /\ DOMAIN b = {"duty", "quiet", "timedOut", "timeouts"}
  BY DEF ThrottleBoards
<1>3. t = IF f.cmd = "duty" /\ ~RefusesDuty(b, f)
          THEN [r EXCEPT !.duty = f.arg, !.timedOut = IF f.arg = "zero" THEN FALSE ELSE @]
          ELSE r
  BY DEF ThrottleTakes
<1> HIDE DEF r, t
<1>4. CASE f.cmd = "duty" /\ ~RefusesDuty(b, f)
  <2>1. t.duty = f.arg
    BY <1>2, <1>3, <1>4
  <2>2. f.arg = "positive" => f = GoFrame("accel")
    BY <1>1, <1>4
  <2>3. f # GoFrame("accel") => f.arg = "zero"
    BY <1>1, <1>4, <2>2
  <2>4. /\ t.duty = "positive" => b.duty = "positive" \/ f = GoFrame("accel")
        /\ f.cmd = Kin("accel") /\ f # GoFrame("accel") => t.duty # "positive"
    BY <2>1, <2>2, <2>3
  <2> QED
    BY <2>4 DEF t
<1>5. CASE ~(f.cmd = "duty" /\ ~RefusesDuty(b, f))
  <2>1. t.duty = b.duty
    BY <1>2, <1>3, <1>5
  <2>2. f.cmd = "duty" => f = GoFrame("accel")
    BY <1>1, <1>5 DEF RefusesDuty
  <2> QED
    BY <1>1, <2>1, <2>2 DEF t
<1> QED
  BY <1>4, <1>5

LEMMA DriveGoes ==
  ASSUME NEW b \in DriveBoards(Horizon), NEW f \in DriveFrames
  PROVE  LET d == DriveTakes(b, f)
         IN  /\ d.steer = "turn" => b.steer = "turn" \/ f = GoFrame("drive")
             /\ f.cmd = Kin("drive") /\ f # GoFrame("drive") => d.steer # "turn"
<1>1. /\ f = [cmd |-> f.cmd, arg |-> f.arg] /\ (f.cmd = "steer" => f.arg \in {"stop", "turn"})
      /\ Kin("drive") = "steer" /\ GoFrame("drive") = [cmd |-> "steer", arg |-> "turn"]
  BY DEF DriveFrames, Frame, Kin, GoFrame, SteerTurn
<1> DEFINE d == DriveTakes(b, f)
           cleared == IF f.cmd \in {"brake", "steer"} /\ f.arg = "stop" THEN [b EXCEPT !.tripped = FALSE] ELSE b
           fresh == [cleared EXCEPT !.quiet = 0]
           why == WhyNot(b, f)
<1>2. fresh.steer = b.steer /\ "steer" \in DOMAIN fresh /\ "steer" \in DOMAIN b
  BY DEF DriveBoards
<1>3. d = CASE why = "WD_TRIPPED"                     -> b
            [] why \in {"STALL", "AT_LIMIT"}          -> SwitchBrake(b, "stop")
            [] why = "" /\ f.cmd = "brake"        -> SwitchBrake(fresh, f.arg)
            [] why = "" /\ f.cmd = "steer"        -> [fresh EXCEPT !.steer = f.arg]
            [] why = "" /\ f.cmd = "alive"        -> fresh
            [] OTHER                                  -> b
  BY DEF DriveTakes
<1>4. f.cmd = "steer" /\ f.arg = "stop" => why = ""
  BY DEF WhyNot, Refused
<1>5. f.cmd = "steer" => why \in {"", "WD_TRIPPED"}
  BY DEF WhyNot
<1> HIDE DEF d, fresh, why
<1>6. SwitchBrake(b, "stop").steer = b.steer /\ SwitchBrake(fresh, f.arg).steer = b.steer
  BY <1>2 DEF SwitchBrake
<1>7. CASE f.cmd # "steer"
  <2>1. d \in {b, SwitchBrake(b, "stop"), SwitchBrake(fresh, f.arg), fresh}
    BY <1>3, <1>7
  <2>2. d.steer = b.steer
    BY <1>2, <1>6, <2>1
  <2> QED
    BY <1>1, <1>7, <2>2 DEF d
<1>8. CASE f.cmd = "steer" /\ why = ""
  <2>1. d = [fresh EXCEPT !.steer = f.arg]
    BY <1>3, <1>8
  <2>2. d.steer = f.arg
    BY <1>2, <2>1
  <2>3. f.arg = "turn" => f = GoFrame("drive")
    BY <1>1, <1>8
  <2>4. /\ d.steer = "turn" => b.steer = "turn" \/ f = GoFrame("drive")
        /\ f.cmd = Kin("drive") /\ f # GoFrame("drive") => d.steer # "turn"
    BY <1>1, <1>8, <2>2, <2>3
  <2> QED
    BY <2>4 DEF d
<1>9. CASE f.cmd = "steer" /\ why = "WD_TRIPPED"
  <2>1. d = b
    BY <1>3, <1>9
  <2>2. f = GoFrame("drive")
    BY <1>1, <1>4, <1>9
  <2> QED
    BY <2>1, <2>2 DEF d
<1> QED
  BY <1>5, <1>7, <1>8, <1>9

LEMMA HeardStands ==
  ASSUME AckInv, NEW k, Wired(k), NEW l \in Links, NEW r, NEW on, Stands(k, on),
         r.cmd = Kin(l) => ~Going(k.wire[l], l) /\ (on[l] => Led(k.pending[l], l))
  PROVE  Stands(Heard(k, l, r), on) /\ Queued(l, r) = lines
<1>1. Heard(k, l, r) \in {k, OnLine(k, l, r)}
  BY DEF Heard
<1>2. Stands(OnLine(k, l, r), on)
  BY OnLineStands
<1>3. Queued(l, r) = lines
  BY DEF Queued, AckInv
<1> QED
  BY <1>1, <1>2, <1>3

\* What a board that takes a frame has on afterwards.
LEMMA MovingIs ==
  ASSUME NEW t, NEW d
  PROVE  /\ Moving(t, d)["accel"] <=> t.duty = "positive"
         /\ Moving(t, d)["drive"] <=> d.steer = "turn"
         /\ \A l \in Links : l = "accel" \/ l = "drive"
BY DEF Moving, Links

LEMMA TakenStands ==
  ASSUME RigInv, AckInv, NEW l \in Links, c.wire[l] # <<>>, NEW t, NEW d,
         IF l = "accel" THEN t = ThrottleTakes(throttle, Head(c.wire[l])) /\ d = drive
         ELSE d = DriveTakes(drive, Head(c.wire[l])) /\ t = throttle
  PROVE  LET k == Untaken(l)
             f == Head(c.wire[l])
             b == Moving(t, d)
         IN  /\ Wired(k) /\ Stands(k, b) /\ Wired(c)
             /\ f.cmd = Kin(l) => ~Going(k.wire[l], l) /\ (b[l] => Led(k.pending[l], l))
<1> DEFINE k == Untaken(l)
           f == Head(c.wire[l])
           a == Moving(throttle, drive)
           b == Moving(t, d)
<1>1. Wired(c) /\ Stands(c, a) /\ c.wire[l] \in Seq(FramesOf(l))
  BY WiredNow DEF AckInv, Wired
<1>2. f \in FramesOf(l)
  BY <1>1, HeadTailProperties
<1>3. throttle \in ThrottleBoards /\ drive \in DriveBoards(Horizon)
  BY BoardTyped DEF RigInv, RigTyped, AroundTyped
<1>4. k = [c EXCEPT !.wire[l] = Tail(@)] /\ f = Head(c.wire[l])
  BY DEF Untaken
<1>5. /\ a["accel"] <=> throttle.duty = "positive"
      /\ a["drive"] <=> drive.steer = "turn"
      /\ b["accel"] <=> t.duty = "positive"
      /\ b["drive"] <=> d.steer = "turn"
  BY MovingIs
<1> HIDE DEF k, a, b, f
<1>6. /\ \A m \in Links : b[m] => a[m] \/ (m = l /\ f = GoFrame(l))
      /\ f.cmd = Kin(l) /\ f # GoFrame(l) => ~b[l]
  <2>1. CASE l = "accel"
    <3>1. t = ThrottleTakes(throttle, f) /\ d = drive /\ f \in AccelFrames
      BY <1>2, <1>4, <2>1 DEF FramesOf
    <3>2. /\ t.duty = "positive" => throttle.duty = "positive" \/ f = GoFrame("accel")
          /\ f.cmd = Kin("accel") /\ f # GoFrame("accel") => t.duty # "positive"
      BY <1>3, <3>1, ThrottleGoes
    <3> QED
      BY <1>5, <2>1, <3>1, <3>2 DEF Links
  <2>2. CASE l = "drive"
    <3>1. d = DriveTakes(drive, f) /\ t = throttle /\ f \in DriveFrames
      BY <1>2, <1>4, <2>2 DEF FramesOf
    <3>2. /\ d.steer = "turn" => drive.steer = "turn" \/ f = GoFrame("drive")
          /\ f.cmd = Kin("drive") /\ f # GoFrame("drive") => d.steer # "turn"
      BY <1>3, <3>1, DriveGoes
    <3> QED
      BY <1>5, <2>2, <3>1, <3>2 DEF Links
  <2> QED
    BY <2>1, <2>2 DEF Links
<1>7. c.wire[l] # <<>>
  OBVIOUS
<1>8. OnWith(b, a, l, f)
  BY <1>6 DEF OnWith
<1>9. /\ Wired(k) /\ Stands(k, b)
      /\ f.cmd = Kin(l) /\ (f # GoFrame(l) => ~b[l]) =>
            ~Going(k.wire[l], l) /\ (b[l] => Led(k.pending[l], l))
  BY <1>1, <1>4, <1>7, <1>8, UntakenStands
<1>10. f.cmd = Kin(l) => ~Going(k.wire[l], l) /\ (b[l] => Led(k.pending[l], l))
  BY <1>6, <1>9
<1> QED
  BY <1>1, <1>9, <1>10 DEF k, b, f

LEMMA TakingsAck ==
  ASSUME RigInv, AckInv, ThrottleBoardTakes \/ DriveBoardTakes \/ SignalFails \/ \E l \in Links : LineLost(l)
  PROVE  AckInv'
<1>0. "accel" \in Links /\ "drive" \in Links /\ "accel" # "drive"
  BY DEF Links
<1>00. slow = {} /\ call = Idle /\ \A l \in Links : lines[l] = <<>>
  BY DEF AckInv
<1>1. CASE ThrottleBoardTakes
  <2> DEFINE k == Untaken("accel")
             f == Head(c.wire["accel"])
             r == ThrottleAnswers(throttle, f)
             b == Moving(throttle', drive)
  <2>1. /\ c.wire["accel"] # <<>> /\ throttle' = ThrottleTakes(throttle, f) /\ c' = Heard(k, "accel", r)
        /\ lines' = Queued("accel", r) /\ call' = call /\ slow' = slow /\ drive' = drive
    BY <1>1 DEF ThrottleBoardTakes, Answer
  <2>2. /\ Wired(k) /\ Stands(k, b)
        /\ f.cmd = Kin("accel") => ~Going(k.wire["accel"], "accel") /\ (b["accel"] => Led(k.pending["accel"], "accel"))
    BY <1>0, <2>1, TakenStands
  <2>3. r.cmd = f.cmd
    BY DEF ThrottleAnswers
  <2> HIDE DEF k, f, r, b
  <2>4. Stands(c', b) /\ lines' = lines
    BY <1>0, <2>1, <2>2, <2>3, HeardStands
  <2>5. Moving(throttle', drive') = b
    BY <2>1 DEF b
  <2>6. Stands(c', Moving(throttle', drive'))
    BY <2>4, <2>5
  <2> QED
    BY <1>00, <2>1, <2>4, <2>6 DEF AckInv
<1>2. CASE DriveBoardTakes
  <2> DEFINE k == Untaken("drive")
             f == Head(c.wire["drive"])
             r == DriveAnswers(drive, f, TRUE)
             b == Moving(throttle, drive')
  <2>1. /\ c.wire["drive"] # <<>> /\ drive' = DriveTakes(drive, f) /\ c' = Heard(k, "drive", r)
        /\ lines' = Queued("drive", r) /\ call' = call /\ slow' = slow /\ throttle' = throttle
    BY <1>2 DEF DriveBoardTakes, Answer
  <2>2. /\ Wired(k) /\ Stands(k, b)
        /\ f.cmd = Kin("drive") => ~Going(k.wire["drive"], "drive") /\ (b["drive"] => Led(k.pending["drive"], "drive"))
    BY <1>0, <2>1, TakenStands
  <2>3. r.cmd = f.cmd
    BY DEF DriveAnswers
  <2> HIDE DEF k, f, r, b
  <2>4. Stands(c', b) /\ lines' = lines
    BY <1>0, <2>1, <2>2, <2>3, HeardStands
  <2>5. Moving(throttle', drive') = b
    BY <2>1 DEF b
  <2>6. Stands(c', Moving(throttle', drive'))
    BY <2>4, <2>5
  <2> QED
    BY <1>00, <2>1, <2>4, <2>6 DEF AckInv
<1>3. CASE SignalFails
  <2> DEFINE k == Untaken("drive")
             f == Head(c.wire["drive"])
             r == DriveAnswers(drive, f, FALSE)
             a == Moving(throttle, drive)
  <2>1. /\ c.wire["drive"] # <<>> /\ f.cmd = "angles" /\ c' = Heard(k, "drive", r)
        /\ lines' = Queued("drive", r) /\ call' = call /\ slow' = slow /\ throttle' = throttle /\ drive' = drive
    BY <1>3 DEF SignalFails, Answer
  <2>2. f.cmd # Kin("drive") /\ f # GoFrame("drive") /\ r.cmd = f.cmd
    BY <1>0, <2>1, KinIs DEF DriveAnswers
  <2>3. Wired(c) /\ Stands(c, a) /\ k = [c EXCEPT !.wire["drive"] = Tail(@)] /\ OnWith(a, a, "drive", f)
    BY WiredNow DEF AckInv, Untaken, OnWith
  <2>4. f = Head(c.wire["drive"])
    OBVIOUS
  <2> HIDE DEF k, f, r, a
  <2>5. Wired(k) /\ Stands(k, a)
    BY <1>0, <2>1, <2>2, <2>3, <2>4, UntakenStands
  <2>6. Stands(c', a) /\ lines' = lines
    BY <1>0, <2>1, <2>2, <2>5, HeardStands
  <2>7. Stands(c', Moving(throttle', drive'))
    BY <2>1, <2>6 DEF a
  <2> QED
    BY <1>00, <2>1, <2>6, <2>7 DEF AckInv
<1>4. ASSUME NEW l \in Links, LineLost(l) PROVE AckInv'
  <2>1. /\ c.wire[l] # <<>> /\ c' = Untaken(l) /\ call' = call /\ slow' = slow /\ lines' = lines
        /\ IF l = "accel" THEN throttle' = ThrottleTakes(throttle, Head(c.wire[l])) /\ drive' = drive
           ELSE drive' = DriveTakes(drive, Head(c.wire[l])) /\ throttle' = throttle
    BY <1>4 DEF LineLost
  <2>2. Stands(Untaken(l), Moving(throttle', drive'))
    BY <2>1, TakenStands
  <2>3. Stands(c', Moving(throttle', drive'))
    BY <2>1, <2>2
  <2> QED
    BY <1>00, <2>1, <2>3 DEF AckInv
<1> QED
  BY <1>1, <1>2, <1>3, <1>4

LEMMA MishapsAck ==
  ASSUME RigInv, AckInv, NEW l \in Links, ReaderEnds(l) \/ FrameLost(l) \/ PortBreaks(l)
  PROVE  AckInv'
<1>0. /\ slow = {} /\ call = Idle /\ (\A m \in Links : lines[m] = <<>>) /\ Wired(c)
      /\ Stands(c, Moving(throttle, drive))
  BY WiredNow DEF AckInv
<1>1. CASE ReaderEnds(l)
  <2>1. /\ c' = LinkLost(c, l) /\ call' = call /\ slow' = slow /\ lines' = lines
        /\ throttle' = throttle /\ drive' = drive
    BY <1>1 DEF ReaderEnds
  <2>2. Settles(c, LinkLost(c, l))
    BY <1>0, LinkLostSettles
  <2> QED
    BY <1>0, <2>1, <2>2, AckStep
<1>2. CASE FrameLost(l)
  <2> DEFINE a == Moving(throttle, drive)
             k == Untaken(l)
             f == Head(c.wire[l])
  <2>1. /\ c.wire[l] # <<>> /\ c' = k /\ call' = call /\ slow' = slow /\ lines' = lines
        /\ throttle' = throttle /\ drive' = drive
    BY <1>2 DEF FrameLost
  <2>2. k = [c EXCEPT !.wire[l] = Tail(@)] /\ Stands(c, a) /\ f = Head(c.wire[l])
        /\ OnWith(a, a, l, f)
    BY <1>0 DEF Untaken, OnWith
  <2> HIDE DEF a, k, f
  <2>3. Stands(k, a)
    BY <1>0, <2>1, <2>2, UntakenStands
  <2>4. Stands(c', Moving(throttle', drive'))
    BY <2>1, <2>3 DEF a
  <2> QED
    BY <1>0, <2>1, <2>4 DEF AckInv
<1>3. CASE PortBreaks(l)
  <2>1. /\ Same(c, c', {"broken"}) /\ {"broken"} \cap Core = {} /\ call' = call /\ slow' = slow
        /\ lines' = [lines EXCEPT ![l] = <<>>] /\ throttle' = throttle /\ drive' = drive
    BY <1>0, <1>3 DEF PortBreaks, Same, Wired, Core
  <2>2. Settles(c, c')
    BY <1>0, <2>1, TouchSettles
  <2>3. DOMAIN lines = Links
    BY DEF RigInv, RigTyped, AroundTyped
  <2>4. \A m \in Links : lines'[m] = <<>>
    BY <1>0, <2>1, <2>3
  <2>5. call' = Idle /\ slow' = {} /\ throttle' = throttle /\ drive'.steer = drive.steer
    BY <1>0, <2>1
  <2>6. Stands(c', Moving(throttle, drive))
    BY <1>0, <2>2 DEF Settles
  <2>7. Stands(c', Moving(throttle', drive'))
    BY <2>1, <2>6
  <2> QED
    BY <2>4, <2>5, <2>7 DEF AckInv
<1> QED
  BY <1>1, <1>2, <1>3

\* The brake meets something, and the board may notice; the tick thread hangs.
LEMMA StallsAck ==
  ASSUME RigInv, AckInv, BrakeJams \/ BrakeStalls \/ TickThreadHangs
  PROVE  AckInv'
<1>0. /\ slow = {} /\ call = Idle /\ (\A m \in Links : lines[m] = <<>>) /\ Wired(c) /\ Settles(c, c)
      /\ Stands(c, Moving(throttle, drive))
  BY WiredNow, SettlesSelf DEF AckInv
<1>1. CASE BrakeJams \/ TickThreadHangs
  <2>1. /\ c' = c /\ call' = call /\ slow' = slow /\ lines' = lines /\ throttle' = throttle
        /\ drive'.steer = drive.steer
    BY <1>1, BoardTyped DEF BrakeJams, TickThreadHangs, DriveBoards
  <2> QED
    BY <1>0, <2>1, AckStep
<1>2. CASE BrakeStalls
  <2> DEFINE r == Notice(drive, "brake", "STALL")
             a == Moving(throttle, drive)
  <2>1. /\ c' = Heard(c, "drive", r) /\ lines' = Queued("drive", r) /\ call' = call /\ slow' = slow
        /\ throttle' = throttle /\ drive' = Stalled(drive)
    BY <1>2 DEF BrakeStalls, Answer
  <2>2. r.cmd = "brake" /\ "drive" \in Links /\ r.cmd # Kin("drive")
    BY KinIs DEF Notice, Links
  <2>3. drive'.steer = drive.steer
    BY <2>1, BoardTyped DEF Stalled, SwitchBrake, DriveBoards
  <2> HIDE DEF r
  <2>4. Moving(throttle', drive') = a
    BY <2>1, <2>3 DEF Moving
  <2>5. Stands(c, a)
    BY <1>0
  <2> HIDE DEF a
  <2>6. Stands(c', a) /\ lines' = lines
    BY <1>0, <2>1, <2>2, <2>5, HeardStands
  <2>7. Stands(c', Moving(throttle', drive'))
    BY <2>4, <2>6
  <2> QED
    BY <1>0, <2>1, <2>6, <2>7 DEF AckInv
<1> QED
  BY <1>1, <1>2

\* Time changes no mark, and puts no board on.
LEMMA ElapseAcks ==
  ASSUME RigInv, AckInv, Elapse
  PROVE  AckInv'
<1> DEFINE k == ControlsAged(c)
           r == Notice(drive', "trip", "")
           a == Moving(throttle, drive)
           b == Moving(throttle', drive')
<1>0. /\ call = Idle /\ (\A m \in Links : lines[m] = <<>>) /\ Wired(c) /\ "drive" \in Links
      /\ Stands(c, a) /\ Typed(c) /\ Sound(c)
  BY WiredNow, ControlsRigged DEF AckInv, Links
<1>1. /\ call' = call /\ slow' = {} /\ throttle' = ThrottleAged(throttle) /\ drive' = DriveAged(drive, Horizon)
      /\ \/ c' = Heard(k, "drive", r) /\ lines' = Queued("drive", r)
         \/ c' = k /\ lines' = lines
  BY DEF Elapse, Answer
<1>2. /\ \A l \in Links :
            /\ DOMAIN k.pending[l] = DOMAIN c.pending[l]
            /\ \A n \in DOMAIN c.pending[l] :
                  /\ k.pending[l][n].cmd = c.pending[l][n].cmd
                  /\ k.pending[l][n].marks = c.pending[l][n].marks
      /\ k.wire = c.wire /\ k.stopped = c.stopped /\ k.whole = c.whole /\ Wired(k)
  <2>1. Typed(k) /\ k.wire = c.wire
    BY <1>0, ControlsAgedDoes
  <2>2. Wired(k)
    BY <2>1, TypedIsWired
  <2>3. k.pending = [l \in Links |->
            [i \in DOMAIN c.pending[l] |-> [c.pending[l][i] EXCEPT !.age = Past(@, Reply)]]]
    BY <1>0 DEF ControlsAged, Wired, Fields
  <2>4. k.stopped = c.stopped /\ k.whole = c.whole
    BY <1>0 DEF ControlsAged, Wired, Fields
  <2>5. ASSUME NEW l \in Links, NEW n \in DOMAIN c.pending[l]
        PROVE  /\ k.pending[l][n].cmd = c.pending[l][n].cmd
               /\ k.pending[l][n].marks = c.pending[l][n].marks
    <3>1. k.pending[l][n] = [c.pending[l][n] EXCEPT !.age = Past(@, Reply)]
      BY <2>3
    <3> HIDE DEF k
    <3> QED
      BY <3>1
  <2> HIDE DEF k
  <2>6. \A l \in Links : DOMAIN k.pending[l] = DOMAIN c.pending[l]
    BY <2>3
  <2> QED
    BY <2>1, <2>2, <2>4, <2>5, <2>6
<1> HIDE DEF k
<1>3. Stands(k, a)
  <2>1. Ordered(k)
    BY <1>0, <1>2, UnmarkedOrder DEF Stands, Ordered
  <2>2. Unheld(k)
    BY <1>0, <1>2 DEF Stands, Unheld
  <2>3. \A l \in Links : Held(c.pending[l], l) => Held(k.pending[l], l)
    BY <1>2 DEF Held
  <2>4. \A l \in Links : Stood(k, l, a[l])
    BY <1>0, <1>2, <2>3 DEF Stands, Stood
  <2> QED
    BY <2>1, <2>2, <2>4 DEF Stands
<1>4. throttle'.duty = "positive" => throttle.duty = "positive"
  BY <1>1 DEF ThrottleAged, RestOnSilence, RigInv, RigTyped, AroundTyped, ThrottleBoards
<1>5. drive'.steer = "turn" => drive.steer = "turn"
  <2> DEFINE m == Moved(drive)
             q == [m EXCEPT !.quiet = IF IsMoving(m) THEN Past(@, Silence) ELSE 0,
                            !.on = IF m.brake = "stop" THEN 0 ELSE Past(@, Horizon)]
  <2>1. drive' = IF SilenceTrips(q) THEN AllOff(q) ELSE q
    BY <1>1 DEF DriveAged
  <2>2. m.steer = drive.steer /\ DOMAIN m = DOMAIN drive /\ "steer" \in DOMAIN m
    BY BoardTyped DEF Moved, SwitchBrake, DriveBoards
  <2> HIDE DEF m
  <2>3. q.steer = drive.steer /\ "steer" \in DOMAIN q
    BY <2>2
  <2> HIDE DEF q
  <2>4. AllOff(q).steer = "stop"
    BY <2>3 DEF AllOff, SwitchBrake
  <2> QED
    BY <2>1, <2>3, <2>4
<1>6. \A l \in Links : b[l] => a[l]
  <2>1. /\ (a["accel"] <=> throttle.duty = "positive") /\ (a["drive"] <=> drive.steer = "turn")
        /\ (b["accel"] <=> throttle'.duty = "positive") /\ (b["drive"] <=> drive'.steer = "turn")
    BY MovingIs
  <2> HIDE DEF a, b
  <2> QED
    BY <1>4, <1>5, <2>1 DEF Links
<1> HIDE DEF a, b
<1>7. Stands(k, b)
  BY <1>3, <1>6, WeakerStands
<1>8. r.cmd # Kin("drive")
  BY <1>0, KinIs DEF Notice
<1> HIDE DEF r
<1>9. Stands(Heard(k, "drive", r), b) /\ Queued("drive", r) = lines
  BY <1>0, <1>2, <1>7, <1>8, HeardStands
<1>10. Stands(c', b) /\ lines' = lines
  BY <1>1, <1>7, <1>9
<1>11. Stands(c', Moving(throttle', drive'))
  BY <1>10 DEF b
<1> QED
  BY <1>0, <1>1, <1>10, <1>11 DEF AckInv

LEMMA NextAcks ==
  ASSUME RigInv, AckInv, "slow" \notin Mishaps, [Next]_vars
  PROVE  AckInv'
<1>1. CASE Next
  <2>1. ASSUME NEW cmd \in Commands, Command(cmd) PROVE AckInv'
    BY <2>1, CommandAcks
  <2>2. ~CallGoesOn
    BY DEF CallGoesOn, AckInv
  <2>3. CASE EstopHeld \/ BridgeStops \/ Resume \/ HumanClears \/ TickRuns
    BY <2>3, CallsAck
  <2>4. ASSUME NEW l \in Links, Read(l) \/ ReaderEnds(l) \/ FrameLost(l) \/ LineLost(l) \/ PortBreaks(l)
        PROVE  AckInv'
    <3>1. ~Read(l)
      BY DEF Read, AckInv
    <3> QED
      BY <2>4, <3>1, MishapsAck, TakingsAck
  <2>5. CASE ThrottleBoardTakes \/ DriveBoardTakes \/ SignalFails
    BY <2>5, TakingsAck
  <2>6. CASE BrakeJams \/ BrakeStalls \/ TickThreadHangs
    BY <2>6, StallsAck
  <2>7. ~\E who \in Links \cup {"bridge"} : Slows(who)
    BY DEF Slows, Befalls
  <2>8. CASE Elapse
    BY <2>8, ElapseAcks
  <2> QED
    BY <1>1, <2>1, <2>2, <2>3, <2>4, <2>5, <2>6, <2>7, <2>8 DEF Next
<1>2. CASE UNCHANGED vars
  BY <1>2 DEF vars, AckInv
<1> QED
  BY <1>1, <1>2

LEMMA InitAcks ==
  ASSUME Init
  PROVE  AckInv
<1> PICK place \in Places, g \in Gears : c = NewControls(place, g) /\ drive = NewDriveBoard(place)
  BY DEF Init
<1>1. /\ c.stopped = FALSE /\ \A l \in Links : c.wire[l] = <<>> /\ c.pending[l] = <<>>
  BY DEF NewControls
<1>2. \A l \in Links : DOMAIN c.wire[l] = {} /\ DOMAIN c.pending[l] = {}
  BY <1>1
<1>3. Ordered(c) /\ Unheld(c) /\ \A l \in Links : ~Going(c.wire[l], l)
  BY <1>2 DEF Ordered, Unheld, Ahead, Going
<1>4. Stands(c, Moving(throttle, drive))
  BY <1>1, <1>3 DEF Stands, Stood
<1> QED
  BY <1>4 DEF AckInv, Init

LEMMA AckInvIsOff == RigInv /\ AckInv => AckedStopIsOff
<1> SUFFICES ASSUME RigInv, AckInv, StopAcked(c)
             PROVE  /\ throttle.duty = "zero" /\ drive.steer = "stop"
                    /\ \A i \in DOMAIN c.wire["accel"] : c.wire["accel"][i].arg # "positive"
                    /\ \A i \in DOMAIN c.wire["drive"] : c.wire["drive"][i].arg # "turn"
  BY DEF AckedStopIsOff
<1> DEFINE a == Moving(throttle, drive)
<1>1. (a["accel"] <=> throttle.duty = "positive") /\ (a["drive"] <=> drive.steer = "turn")
  BY MovingIs
<1>2. Stands(c, a)
  BY DEF AckInv
<1> HIDE DEF a
<1>3. \A l \in Links : ~Held(c.pending[l], l)
  BY DEF StopAcked, Held
<1>4. \A l \in Links : ~a[l] /\ ~Going(c.wire[l], l)
  BY <1>2, <1>3 DEF StopAcked, Stands, Stood
<1>5. "accel" \in Links /\ "drive" \in Links /\ Wired(c)
  BY WiredNow DEF Links
<1>6. throttle.duty \in {"zero", "positive"} /\ drive.steer \in {"stop", "turn"}
  BY BoardTyped DEF RigInv, RigTyped, AroundTyped, ThrottleBoards, DriveBoards, Duties
<1>7. throttle.duty = "zero" /\ drive.steer = "stop"
  BY <1>1, <1>4, <1>5, <1>6
<1>8. ASSUME NEW i \in DOMAIN c.wire["accel"] PROVE c.wire["accel"][i].arg # "positive"
  <2> DEFINE f == c.wire["accel"][i]
  <2>1. c.wire["accel"] \in Seq(FramesOf("accel"))
    BY <1>5 DEF Wired
  <2>2. f \in AccelFrames
    BY <1>5, <2>1 DEF FramesOf
  <2>3. f # GoFrame("accel")
    BY <1>4, <1>5 DEF Going
  <2> HIDE DEF f
  <2>4. f.arg # "positive"
    BY <2>2, <2>3 DEF AccelFrames, Frame, Duties, GoFrame
  <2> QED
    BY <2>4 DEF f
<1>9. ASSUME NEW i \in DOMAIN c.wire["drive"] PROVE c.wire["drive"][i].arg # "turn"
  <2> DEFINE f == c.wire["drive"][i]
  <2>1. c.wire["drive"] \in Seq(FramesOf("drive"))
    BY <1>5 DEF Wired
  <2>2. f \in DriveFrames
    BY <1>5, <2>1 DEF FramesOf
  <2>3. f # GoFrame("drive")
    BY <1>4, <1>5 DEF Going
  <2> HIDE DEF f
  <2>4. f.arg # "turn"
    BY <2>2, <2>3 DEF DriveFrames, Frame, GoFrame, SteerTurn
  <2> QED
    BY <2>4 DEF f
<1> QED
  BY <1>7, <1>8, <1>9

------------------------------------------------------------------------------
(* A start waits for its release.                                            *)

NoApply(k) == \A i \in DOMAIN k.wire["drive"] : k.wire["drive"][i] # ApplyFrame
Awaits(k) == \E n \in DOMAIN k.pending["drive"] : "release" \in k.pending["drive"][n].marks

\* With the brake's relay at b: it is taken to be applied, or nothing applies it; and while
\* a release counts, nothing is on its way that applies it.
Freed(k, b) ==
    /\ k.applied = TRUE \/ (b # "apply" /\ NoApply(k))
    /\ Awaits(k) => NoApply(k)

\* With the brake at p: a reading that says released is at most a place old.
Seen(k, p) ==
    k.at = "released" => /\ k.readAge = 0 => p = "released"
                         /\ k.readAge <= MaxAge => p # "applied"

\* d comes from k by a step that neither starts the throttle nor takes the brake to be free.
Frees(k, d) ==
    /\ Wired(d) /\ d.at = k.at /\ d.readAge = k.readAge /\ d.duty \in {k.duty, "zero"}
    /\ k.applied = TRUE => d.applied = TRUE
    /\ Awaits(d) => Awaits(k)
    /\ \A b : Freed(k, b) => Freed(d, b)

LEMMA FreesTwice ==
  ASSUME NEW a, NEW b, NEW d, Frees(a, b), Frees(b, d)
  PROVE  Frees(a, d)
BY DEF Frees

LEMMA FreesSelf ==
  ASSUME NEW k, Wired(k)
  PROVE  Frees(k, k)
BY DEF Frees

\* What a step may leave to the frames and their transactions.
Brake == {"wire", "pending", "at", "readAge", "duty", "applied"}

LEMMA TouchFrees ==
  ASSUME NEW k, Wired(k), NEW X, NEW d, Same(k, d, X), X \cap {"wire", "pending", "at", "readAge"} = {},
         d.duty \in {k.duty, "zero"}, d.applied \in {k.applied, TRUE}
  PROVE  Frees(k, d)
<1>1. d.wire = k.wire /\ d.pending = k.pending /\ d.at = k.at /\ d.readAge = k.readAge /\ DOMAIN d = Fields
  BY DEF Same, Fields
<1>2. Wired(d)
  BY <1>1 DEF Wired
<1> QED
  BY <1>1, <1>2 DEF Frees, Freed, NoApply, Awaits

\* A touch of nothing here.
LEMMA OtherTouchFrees ==
  ASSUME NEW k, Wired(k), NEW X, NEW d, Same(k, d, X), X \cap Brake = {}
  PROVE  Frees(k, d) /\ Wired(d)
<1>1. X \cap {"wire", "pending", "at", "readAge"} = {} /\ "duty" \notin X /\ "applied" \notin X
  BY DEF Brake
<1>2. d.duty = k.duty /\ d.applied = k.applied
  BY <1>1 DEF Same, Fields
<1>3. Frees(k, d)
  BY <1>1, <1>2, TouchFrees
<1> QED
  BY <1>3 DEF Frees

LEMMA UnmarkedFrees ==
  ASSUME NEW k, Wired(k), NEW mark
  PROVE  LET d == Unmarked(k, mark)
         IN  /\ Frees(k, d) /\ Wired(d) /\ d.wire = k.wire /\ Same(k, d, {"pending"})
             /\ mark = "release" => ~Awaits(d)
<1> DEFINE d == Unmarked(k, mark)
<1>1. /\ Wired(d) /\ d.wire = k.wire /\ Same(k, d, {"pending"})
      /\ \A l \in Links :
            /\ DOMAIN d.pending[l] = DOMAIN k.pending[l]
            /\ \A n \in DOMAIN k.pending[l] :
                  /\ d.pending[l][n].cmd = k.pending[l][n].cmd
                  /\ d.pending[l][n].marks = k.pending[l][n].marks \ {mark}
  BY UnmarkedWires
<1> HIDE DEF d
<1>2. d.at = k.at /\ d.readAge = k.readAge /\ d.duty = k.duty /\ d.applied = k.applied
  BY <1>1 DEF Same, Fields
<1>3. (Awaits(d) => Awaits(k)) /\ (mark = "release" => ~Awaits(d))
  BY <1>1 DEF Awaits, Links
<1>4. Frees(k, d)
  BY <1>1, <1>2, <1>3 DEF Frees, Freed, NoApply
<1> QED
  BY <1>1, <1>3, <1>4 DEF d

\* Another frame behind on the drive's wire.
LEMMA AppendedApply ==
  ASSUME NEW v \in Seq(FramesOf("drive")), NEW f, NEW p \in Seq(TxnsOf("drive")), NEW t
  PROVE  /\ (\A i \in DOMAIN v : v[i] # ApplyFrame) /\ f # ApplyFrame =>
               \A i \in DOMAIN Append(v, f) : Append(v, f)[i] # ApplyFrame
         /\ (\E n \in DOMAIN Append(p, t) : "release" \in Append(p, t)[n].marks) =>
               "release" \in t.marks \/ \E n \in DOMAIN p : "release" \in p[n].marks
<1> DEFINE w == Append(v, f)
           q == Append(p, t)
<1>1. /\ DOMAIN v = 1 .. Len(v) /\ Len(v) \in Nat /\ DOMAIN w = 1 .. Len(v) + 1 /\ w[Len(v) + 1] = f
      /\ \A i \in 1 .. Len(v) : w[i] = v[i]
  BY Appended
<1>2. /\ DOMAIN p = 1 .. Len(p) /\ Len(p) \in Nat /\ DOMAIN q = 1 .. Len(p) + 1 /\ q[Len(p) + 1] = t
      /\ \A i \in 1 .. Len(p) : q[i] = p[i]
  BY Appended
<1> HIDE DEF w, q
<1>3. ASSUME \A i \in DOMAIN v : v[i] # ApplyFrame, f # ApplyFrame PROVE \A i \in DOMAIN w : w[i] # ApplyFrame
  BY <1>1, <1>3
<1>4. ASSUME NEW n \in DOMAIN q, "release" \in q[n].marks
      PROVE  "release" \in t.marks \/ \E o \in DOMAIN p : "release" \in p[o].marks
  <2>1. n = Len(p) + 1 \/ n \in DOMAIN p
    BY <1>2
  <2> QED
    BY <1>2, <1>4, <2>1
<1> QED
  BY <1>3, <1>4 DEF w, q

\* A frame that applies the brake goes out only where it is taken to be applied and no
\* release counts.
MayGo(k, l, cmd, arg) == l = "drive" /\ Frame(cmd, arg) = ApplyFrame => k.applied = TRUE /\ ~Awaits(k)

LEMMA WriteInStopFrees ==
  ASSUME NEW k, Wired(k), NEW l \in Links, NEW cmd, NEW arg, Frame(cmd, arg) \in FramesOf(l),
         NEW marks \in SUBSET Marks, "release" \notin marks,
         MayGo(k, l, cmd, arg)
  PROVE  LET d == WriteInStop(k, l, cmd, arg, marks)
         IN  Frees(k, d) /\ Wired(d) /\ d.duty = k.duty /\ d.applied = k.applied
<1> DEFINE f == Frame(cmd, arg)
           t == [cmd |-> cmd, arg |-> arg, age |-> 0, marks |-> marks]
           d == WriteInStop(k, l, cmd, arg, marks)
<1>1. /\ Wired(d)
      /\ IF Goes(k, l)
         THEN /\ Same(k, d, {"wire", "pending"})
              /\ \A m \in Links :
                    /\ d.wire[m] = IF m = l THEN Append(k.wire[m], f) ELSE k.wire[m]
                    /\ d.pending[m] = IF m = l THEN Append(k.pending[m], t) ELSE k.pending[m]
         ELSE Same(k, d, {"up", "faulted"})
  BY WriteInStopAdds
<1>2. t.marks = marks /\ f = Frame(cmd, arg)
  OBVIOUS
<1> HIDE DEF d, f, t
<1>3. CASE ~Goes(k, l)
  <2>1. Same(k, d, {"up", "faulted"}) /\ {"up", "faulted"} \cap Brake = {}
    BY <1>1, <1>3 DEF Brake
  <2>2. Frees(k, d) /\ d.duty = k.duty /\ d.applied = k.applied
    BY <2>1, OtherTouchFrees DEF Same, Fields
  <2> QED
    BY <1>1, <2>2 DEF d
<1>4. CASE Goes(k, l)
  <2>1. /\ Same(k, d, {"wire", "pending"})
        /\ \A m \in Links :
              /\ d.wire[m] = IF m = l THEN Append(k.wire[m], f) ELSE k.wire[m]
              /\ d.pending[m] = IF m = l THEN Append(k.pending[m], t) ELSE k.pending[m]
    BY <1>1, <1>4
  <2>2. d.at = k.at /\ d.readAge = k.readAge /\ d.duty = k.duty /\ d.applied = k.applied
    BY <2>1 DEF Same, Fields
  <2>3. CASE l = "accel"
    <3>1. d.wire["drive"] = k.wire["drive"] /\ d.pending["drive"] = k.pending["drive"]
      BY <2>1, <2>3 DEF Links
    <3>2. Frees(k, d)
      BY <1>1, <2>2, <3>1 DEF Frees, Freed, NoApply, Awaits
    <3> QED
      BY <1>1, <2>2, <3>2 DEF d
  <2>4. CASE l = "drive"
    <3> DEFINE v == k.wire["drive"]
               p == k.pending["drive"]
    <3>1. d.wire["drive"] = Append(v, f) /\ d.pending["drive"] = Append(p, t)
      BY <2>1, <2>4 DEF Links
    <3>2. v \in Seq(FramesOf("drive")) /\ p \in Seq(TxnsOf("drive"))
      BY DEF Wired, Links
    <3>3. /\ (\A i \in DOMAIN v : v[i] # ApplyFrame) /\ f # ApplyFrame =>
                \A i \in DOMAIN Append(v, f) : Append(v, f)[i] # ApplyFrame
          /\ (\E n \in DOMAIN Append(p, t) : "release" \in Append(p, t)[n].marks) =>
               "release" \in t.marks \/ \E n \in DOMAIN p : "release" \in p[n].marks
      BY <3>2, AppendedApply
    <3>4. (NoApply(k) /\ f # ApplyFrame => NoApply(d)) /\ (Awaits(d) => Awaits(k))
      BY <1>2, <3>1, <3>3 DEF NoApply, Awaits
    <3>5. f = ApplyFrame => k.applied = TRUE /\ ~Awaits(k)
      BY <1>2, <2>4 DEF MayGo
    <3>6. ASSUME NEW b, Freed(k, b) PROVE Freed(d, b)
      BY <2>2, <3>4, <3>5, <3>6 DEF Freed
    <3>7. Frees(k, d)
      BY <1>1, <2>2, <3>4, <3>6 DEF Frees
    <3> QED
      BY <1>1, <2>2, <3>7 DEF d
  <2> QED
    BY <2>3, <2>4 DEF Links
<1> QED
  BY <1>3, <1>4

LEMMA MostMayGo ==
  ASSUME NEW k, NEW l, NEW cmd, NEW arg, l = "accel" \/ Frame(cmd, arg) # ApplyFrame
  PROVE  MayGo(k, l, cmd, arg)
BY DEF MayGo

LEMMA DutyFrees ==
  ASSUME NEW k, Wired(k), NEW duty \in Duties, NEW marks \in SUBSET Marks, "release" \notin marks
  PROVE  LET d == DutyInStop(k, duty, marks)
         IN  Frees(k, d) /\ Wired(d) /\ d.duty = k.duty /\ d.applied = k.applied
<1> DEFINE u == Unmarked(k, "latest")
           n == marks \cup {"latest"}
           w == WriteInStop(u, "accel", "duty", duty, n)
           d == [w EXCEPT !.latestAcked = FALSE]
           e == WriteInStop(k, "accel", "duty", duty, marks)
<1>0. /\ "accel" \in Links /\ Frame("duty", duty) \in FramesOf("accel") /\ "accel" # "drive"
      /\ n \in SUBSET Marks /\ "release" \notin n
  BY FramesFit DEF Links, Marks, Duties
<1>1. DutyInStop(k, duty, marks) = IF Goes(k, "accel") THEN d ELSE e
  BY DEF DutyInStop
<1> HIDE DEF n
<1>2. Frees(k, u) /\ Wired(u) /\ Same(k, u, {"pending"})
  BY UnmarkedFrees
<1>3. u.duty = k.duty /\ u.applied = k.applied
  BY <1>2 DEF Same, Fields
<1> HIDE DEF u
<1>9. MayGo(u, "accel", "duty", duty) /\ MayGo(k, "accel", "duty", duty)
  BY MostMayGo
<1>4. Frees(u, w) /\ Wired(w) /\ w.duty = u.duty /\ w.applied = u.applied
  BY <1>0, <1>2, <1>9, WriteInStopFrees
<1>5. Frees(k, e) /\ Wired(e) /\ e.duty = k.duty /\ e.applied = k.applied
  BY <1>0, <1>9, WriteInStopFrees
<1> HIDE DEF w, e
<1>6. Same(w, d, {"latestAcked"}) /\ {"latestAcked"} \cap Brake = {}
  BY <1>4 DEF Same, Wired, Brake
<1> HIDE DEF d
<1>7. Frees(w, d) /\ Wired(d) /\ d.duty = w.duty /\ d.applied = w.applied
  BY <1>4, <1>6, OtherTouchFrees, ZenonT(40) DEF Same, Fields
<1>8. Frees(k, d)
  BY <1>2, <1>4, <1>7, FreesTwice
<1> QED
  BY <1>1, <1>3, <1>4, <1>5, <1>7, <1>8

\* A stop forgets the release before it applies the brake.
LEMMA SafeStopFrees ==
  ASSUME NEW k, Wired(k), NEW brake
  PROVE  LET d == SafeStop(k, brake)
         IN  Frees(k, d) /\ Wired(d) /\ d.stopped = TRUE
<1> DEFINE u == Unmarked(k, "stop")
           m == Unmarked(u, "release")
           reset == [m EXCEPT !.stopped = TRUE, !.steer = "stop", !.duty = "zero"]
           rest == DutyInStop(reset, "zero", {"stop"})
           onset == [rest EXCEPT !.applied = TRUE, !.moving = TRUE,
                                 !.stopApply = 0, !.moveDir = "apply", !.moveAge = 0]
           still == [rest EXCEPT !.moving = FALSE]
           applies == WriteInStop(onset, "drive", "brake", "apply", {"stop"})
           halts == WriteInStop(still, "drive", "brake", "stop", {"stop"})
           braked == IF AppliesBrake(rest, brake) THEN applies
                     ELSE IF LetsStrokeRun(rest, brake) THEN rest ELSE halts
           ended == WriteInStop(braked, "drive", "steer", "stop", {"stop"})
           d == [ended EXCEPT !.whole = AllGo(k)]
           X == {"applied", "moving", "stopApply", "moveDir", "moveAge"}
<1>1. SafeStop(k, brake) = d
  BY DEF SafeStop
<1>0. /\ Frame("brake", "apply") \in FramesOf("drive") /\ Frame("brake", "stop") \in FramesOf("drive")
      /\ Frame("steer", "stop") \in FramesOf("drive") /\ Frame("brake", "stop") # ApplyFrame
      /\ Frame("steer", "stop") # ApplyFrame
      /\ {"stop"} \in SUBSET Marks /\ "release" \notin {"stop"} /\ "drive" \in Links
  BY FramesFit DEF Links, ApplyFrame, Frame, Marks
<1>2. Frees(k, u) /\ Wired(u)
  BY UnmarkedFrees
<1> HIDE DEF u
<1>3. Frees(u, m) /\ Wired(m) /\ ~Awaits(m)
  BY <1>2, UnmarkedFrees
<1> HIDE DEF m
<1>4. /\ Same(m, reset, {"stopped", "steer", "duty"}) /\ reset.duty = "zero" /\ reset.applied = m.applied
      /\ {"stopped", "steer", "duty"} \cap {"wire", "pending", "at", "readAge"} = {}
  BY <1>3 DEF Same, Wired, Fields
<1> HIDE DEF reset
<1>5. Frees(m, reset) /\ Wired(reset)
  BY <1>3, <1>4, TouchFrees DEF Frees
<1>6. Frees(reset, rest) /\ Wired(rest)
  BY <1>0, <1>5, DutyFrees DEF Duties
<1> HIDE DEF rest
<1>7. Frees(k, rest)
  BY <1>2, <1>3, <1>5, <1>6, FreesTwice
<1>8. ~Awaits(rest)
  BY <1>3, <1>5, <1>6 DEF Frees
<1>9. /\ Same(rest, onset, X) /\ Same(rest, still, {"moving"}) /\ {"moving"} \cap Brake = {}
      /\ X \cap {"wire", "pending", "at", "readAge"} = {}
      /\ onset.duty = rest.duty /\ onset.applied = TRUE
  BY <1>6 DEF Same, Wired, Brake, Fields
<1> HIDE DEF onset, still, X
<1>10. Frees(rest, onset) /\ Wired(onset)
  BY <1>6, <1>9, TouchFrees DEF Frees
<1>11. Frees(rest, still) /\ Wired(still)
  BY <1>6, <1>9, OtherTouchFrees
<1>12. ~Awaits(onset)
  BY <1>8, <1>10 DEF Frees
<1>22. MayGo(onset, "drive", "brake", "apply") /\ MayGo(still, "drive", "brake", "stop")
  BY <1>0, <1>9, <1>12, MostMayGo DEF MayGo
<1>13. Frees(onset, applies) /\ Wired(applies)
  BY <1>0, <1>10, <1>22, WriteInStopFrees
<1>14. Frees(still, halts) /\ Wired(halts)
  BY <1>0, <1>11, <1>22, WriteInStopFrees
<1> HIDE DEF applies, halts
<1>15. Frees(k, applies) /\ Frees(k, halts)
  BY <1>7, <1>10, <1>11, <1>13, <1>14, FreesTwice
<1>16. Frees(k, braked) /\ Wired(braked)
  BY <1>6, <1>7, <1>13, <1>14, <1>15
<1> HIDE DEF braked
<1>23. MayGo(braked, "drive", "steer", "stop")
  BY <1>0, MostMayGo
<1>17. Frees(braked, ended) /\ Wired(ended)
  BY <1>0, <1>16, <1>23, WriteInStopFrees
<1> HIDE DEF ended
<1>18. Same(ended, d, {"whole"}) /\ {"whole"} \cap Brake = {}
  BY <1>17 DEF Same, Wired, Brake
<1> HIDE DEF d
<1>19. Frees(ended, d) /\ Wired(d)
  BY <1>17, <1>18, OtherTouchFrees
<1>20. Frees(k, d)
  BY <1>16, <1>17, <1>19, FreesTwice
<1>21. d.stopped = TRUE
  BY <1>1, SafeStopStops DEF Stops
<1> QED
  BY <1>1, <1>19, <1>20, <1>21

LEMMA FaultFrees ==
  ASSUME NEW k, Wired(k), NEW brake
  PROVE  Frees(k, Fault(k, brake)) /\ Wired(Fault(k, brake))
<1> DEFINE u == [k EXCEPT !.faulted = TRUE, !.boardTripped = @ \/ ~brake]
<1>1. Same(k, u, {"faulted", "boardTripped"}) /\ {"faulted", "boardTripped"} \cap Brake = {}
  BY DEF Same, Wired, Brake
<1>2. Fault(k, brake) = SafeStop(u, brake)
  BY DEF Fault
<1> HIDE DEF u
<1>3. Frees(k, u) /\ Wired(u)
  BY <1>1, OtherTouchFrees
<1>4. Frees(u, SafeStop(u, brake)) /\ Wired(SafeStop(u, brake))
  BY <1>3, SafeStopFrees
<1> QED
  BY <1>2, <1>3, <1>4, FreesTwice

\* _write() of a frame that no release waits for.
LEMMA WriteFrees ==
  ASSUME NEW k, Wired(k), NEW l \in Links, NEW cmd, NEW arg, Frame(cmd, arg) \in FramesOf(l),
         NEW marks \in SUBSET Marks, "release" \notin marks,
         MayGo(k, l, cmd, arg)
  PROVE  Frees(k, Write(k, l, cmd, arg, marks)) /\ Wired(Write(k, l, cmd, arg, marks))
<1> DEFINE w == WriteInStop(k, l, cmd, arg, marks)
           d == Write(k, l, cmd, arg, marks)
<1>1. Frees(k, w) /\ Wired(w)
  BY WriteInStopFrees
<1>2. d \in {w, SafeStop(w, TRUE)}
  BY DEF Write
<1> HIDE DEF w, d
<1>3. Frees(w, SafeStop(w, TRUE)) /\ Wired(SafeStop(w, TRUE))
  BY <1>1, SafeStopFrees
<1>4. Frees(k, SafeStop(w, TRUE))
  BY <1>1, <1>3, FreesTwice
<1> QED
  BY <1>1, <1>2, <1>3, <1>4 DEF d

LEMMA WriteDutyFrees ==
  ASSUME NEW k, Wired(k), NEW duty \in Duties
  PROVE  Frees(k, WriteDuty(k, duty)) /\ Wired(WriteDuty(k, duty))
<1> DEFINE w == DutyInStop(k, duty, {})
           d == WriteDuty(k, duty)
<1>0. {} \in SUBSET Marks /\ "release" \notin {}
  OBVIOUS
<1>1. Frees(k, w) /\ Wired(w)
  BY <1>0, DutyFrees
<1>2. d \in {w, SafeStop(w, TRUE)}
  BY DEF WriteDuty
<1> HIDE DEF w, d
<1>3. Frees(w, SafeStop(w, TRUE)) /\ Wired(SafeStop(w, TRUE))
  BY <1>1, SafeStopFrees
<1>4. Frees(k, SafeStop(w, TRUE))
  BY <1>1, <1>3, FreesTwice
<1> QED
  BY <1>1, <1>2, <1>3, <1>4 DEF d

\* The frames that do not apply the brake.
LEMMA NoApplyFrames ==
  /\ "accel" \in Links /\ "drive" \in Links /\ "accel" # "drive"
  /\ \A cmd \in {"alive", "read"} : Frame(cmd, "") \in FramesOf("accel")
  /\ \A b \in {"stop", "release"} : Frame("brake", b) \in FramesOf("drive") /\ Frame("brake", b) # ApplyFrame
  /\ \A g \in {"D", "N"} : Frame("gear", g) \in FramesOf("drive") /\ Frame("gear", g) # ApplyFrame
  /\ \A s \in {"stop", "turn"} : Frame("steer", s) \in FramesOf("drive") /\ Frame("steer", s) # ApplyFrame
  /\ \A cmd \in {"alive", "angles"} : Frame(cmd, "") \in FramesOf("drive") /\ Frame(cmd, "") # ApplyFrame
  /\ ApplyFrame \in FramesOf("drive")
  /\ {} \in SUBSET Marks /\ {"release"} \in SUBSET Marks /\ "release" \notin {}
BY FramesFit DEF Links, ApplyFrame, Frame, Marks

LEMMA ApplyFrees ==
  ASSUME NEW k, Wired(k)
  PROVE  Frees(k, ApplyBrake(k)) /\ Wired(ApplyBrake(k))
<1> DEFINE u == Unmarked(k, "release")
           t == [u EXCEPT !.applied = TRUE, !.duty = "zero"]
           off == WriteDuty(t, "zero")
           m == [off EXCEPT !.moving = TRUE, !.moveDir = "apply", !.moveAge = 0]
           d == Write(m, "drive", "brake", "apply", {})
           X == {"moving", "moveDir", "moveAge"}
<1>1. ApplyBrake(k) = d
  BY DEF ApplyBrake
<1>2. Frees(k, u) /\ Wired(u) /\ ~Awaits(u)
  BY UnmarkedFrees
<1> HIDE DEF u
<1>3. /\ Same(u, t, {"applied", "duty"}) /\ t.duty = "zero" /\ t.applied = TRUE
      /\ {"applied", "duty"} \cap {"wire", "pending", "at", "readAge"} = {}
  BY <1>2 DEF Same, Wired, Fields
<1> HIDE DEF t
<1>4. Frees(u, t) /\ Wired(t)
  BY <1>2, <1>3, TouchFrees DEF Frees
<1>5. Frees(t, off) /\ Wired(off)
  BY <1>4, WriteDutyFrees DEF Duties
<1> HIDE DEF off
<1>6. Same(off, m, X) /\ X \cap Brake = {} /\ m.applied = off.applied
  BY <1>5 DEF Same, Wired, Brake, Fields
<1> HIDE DEF m, X
<1>7. Frees(off, m) /\ Wired(m)
  BY <1>5, <1>6, OtherTouchFrees
<1>8. m.applied = TRUE /\ ~Awaits(m)
  BY <1>2, <1>3, <1>4, <1>5, <1>6, <1>7 DEF Frees
<1>11. MayGo(m, "drive", "brake", "apply") /\ Frame("brake", "apply") \in FramesOf("drive")
  BY <1>8, NoApplyFrames DEF MayGo, ApplyFrame
<1>9. Frees(m, d) /\ Wired(d)
  BY <1>7, <1>11, NoApplyFrames, WriteFrees
<1> HIDE DEF d
<1>10. Frees(k, d)
  BY <1>2, <1>4, <1>5, <1>7, <1>9, FreesTwice
<1> QED
  BY <1>1, <1>9, <1>10

LEMMA NoApplyWritten ==
  ASSUME NEW k, Wired(k), NEW cmd, NEW arg, Frame(cmd, arg) \in FramesOf("drive"),
         Frame(cmd, arg) # ApplyFrame, NEW marks \in SUBSET Marks, NoApply(k)
  PROVE  NoApply(WriteInStop(k, "drive", cmd, arg, marks))
<1> DEFINE f == Frame(cmd, arg)
           t == [cmd |-> cmd, arg |-> arg, age |-> 0, marks |-> marks]
           w == WriteInStop(k, "drive", cmd, arg, marks)
           v == k.wire["drive"]
           p == k.pending["drive"]
<1>0. "drive" \in Links /\ f # ApplyFrame
  BY DEF Links
<1>1. IF Goes(k, "drive")
      THEN /\ Same(k, w, {"wire", "pending"})
           /\ \A m \in Links :
                 /\ w.wire[m] = IF m = "drive" THEN Append(k.wire[m], f) ELSE k.wire[m]
                 /\ w.pending[m] = IF m = "drive" THEN Append(k.pending[m], t) ELSE k.pending[m]
      ELSE Same(k, w, {"up", "faulted"})
  BY <1>0, WriteInStopAdds
<1> HIDE DEF w, f, t
<1>2. CASE Goes(k, "drive")
  <2>1. w.wire["drive"] = Append(v, f)
    BY <1>0, <1>1, <1>2
  <2>2. v \in Seq(FramesOf("drive")) /\ p \in Seq(TxnsOf("drive"))
    BY <1>0 DEF Wired
  <2>3. (\A i \in DOMAIN v : v[i] # ApplyFrame) /\ f # ApplyFrame =>
           \A i \in DOMAIN Append(v, f) : Append(v, f)[i] # ApplyFrame
    BY <2>2, AppendedApply
  <2>4. NoApply(w)
    BY <1>0, <2>1, <2>3 DEF NoApply
  <2> QED
    BY <2>4 DEF w
<1>3. CASE ~Goes(k, "drive")
  <2>1. w.wire = k.wire
    BY <1>1, <1>3 DEF Same, Fields
  <2>2. NoApply(w)
    BY <2>1 DEF NoApply
  <2> QED
    BY <2>2 DEF w
<1> QED
  BY <1>2, <1>3

LEMMA GearFrees ==
  ASSUME NEW k, Wired(k), NEW g \in {"D", "N"}
  PROVE  LET d == Gear(k, g)
         IN  Frees(k, d) /\ Wired(d) /\ (d.stopped = TRUE \/ (NoApply(k) => NoApply(d)))
<1> DEFINE w == WriteInStop(k, "drive", "gear", g, {})
           d == Gear(k, g)
<1>1. d = Write(k, "drive", "gear", g, {}) /\ d \in {w, SafeStop(w, TRUE)}
  BY DEF Gear, Write
<1>2. /\ Frame("gear", g) \in FramesOf("drive") /\ Frame("gear", g) # ApplyFrame /\ {} \in SUBSET Marks
      /\ "drive" \in Links /\ "release" \notin {}
  BY NoApplyFrames
<1> HIDE DEF d
<1>3. MayGo(k, "drive", "gear", g)
  BY <1>2, MostMayGo
<1>4. Frees(k, d) /\ Wired(d)
  BY <1>1, <1>2, <1>3, WriteFrees
<1>5. NoApply(k) => NoApply(w)
  BY <1>2, NoApplyWritten
<1>6. SafeStop(w, TRUE).stopped = TRUE
  BY <1>2, <1>3, WriteInStopFrees, SafeStopFrees
<1> QED
  BY <1>1, <1>4, <1>5, <1>6 DEF d

LEMMA SteerFrees ==
  ASSUME NEW k, Wired(k), NEW dir \in {"stop", "turn"}
  PROVE  Frees(k, Steer(k, dir)) /\ Wired(Steer(k, dir))
<1> DEFINE a == [k EXCEPT !.steer = dir]
           d == Write(a, "drive", "steer", dir, {})
<1>1. Steer(k, dir) = d
  BY DEF Steer
<1>2. Same(k, a, {"steer"}) /\ {"steer"} \cap Brake = {}
  BY DEF Same, Wired, Brake
<1> HIDE DEF a
<1>3. Frees(k, a) /\ Wired(a)
  BY <1>2, OtherTouchFrees
<1>5. MayGo(a, "drive", "steer", dir)
  BY NoApplyFrames, MostMayGo
<1>4. Frees(a, d) /\ Wired(d)
  BY <1>3, <1>5, NoApplyFrames, WriteFrees
<1> HIDE DEF d
<1> QED
  BY <1>1, <1>3, <1>4, FreesTwice

LEMMA UnlatchedFrees ==
  ASSUME NEW k, Wired(k)
  PROVE  Frees(k, Unlatched(k)) /\ Wired(Unlatched(k))
<1> DEFINE b == Unmarked(k, "stop")
           u == [b EXCEPT !.stopped = FALSE, !.whole = TRUE, !.stopApply = Never]
           m == [u EXCEPT !.moving = FALSE]
           h == Write(m, "drive", "brake", "stop", {})
           X == {"stopped", "whole", "stopApply"}
<1>1. Unlatched(k) \in {h, u}
  BY DEF Unlatched
<1>2. Frees(k, b) /\ Wired(b)
  BY UnmarkedFrees
<1> HIDE DEF b
<1>3. Same(b, u, X) /\ X \cap Brake = {}
  BY <1>2 DEF Same, Wired, Brake
<1> HIDE DEF u, X
<1>4. Frees(b, u) /\ Wired(u)
  BY <1>2, <1>3, OtherTouchFrees
<1>5. Same(u, m, {"moving"}) /\ {"moving"} \cap Brake = {}
  BY <1>4 DEF Same, Wired, Brake
<1> HIDE DEF m
<1>6. Frees(u, m) /\ Wired(m)
  BY <1>4, <1>5, OtherTouchFrees
<1>9. MayGo(m, "drive", "brake", "stop")
  BY NoApplyFrames, MostMayGo
<1>7. Frees(m, h) /\ Wired(h)
  BY <1>6, <1>9, NoApplyFrames, WriteFrees
<1> HIDE DEF h
<1>8. Frees(k, u) /\ Frees(k, h)
  BY <1>2, <1>4, <1>6, <1>7, FreesTwice
<1> QED
  BY <1>1, <1>4, <1>7, <1>8

LEMMA ClearFrees ==
  ASSUME NEW k, Wired(k)
  PROVE  Frees(k, ClearFaults(k)) /\ Wired(ClearFaults(k))
<1> DEFINE a == [k EXCEPT !.faulted = FALSE, !.boardTripped = FALSE]
           u == Unlatched(a)
           m == [u EXCEPT !.alive = FALSE]
<1>1. ClearFaults(k) = WriteDuty(m, "zero")
  BY DEF ClearFaults
<1>2. Same(k, a, {"faulted", "boardTripped"}) /\ {"faulted", "boardTripped"} \cap Brake = {}
  BY DEF Same, Wired, Brake
<1> HIDE DEF a
<1>3. Frees(k, a) /\ Wired(a)
  BY <1>2, OtherTouchFrees
<1>4. Frees(a, u) /\ Wired(u)
  BY <1>3, UnlatchedFrees
<1> HIDE DEF u
<1>5. Same(u, m, {"alive"}) /\ {"alive"} \cap Brake = {}
  BY <1>4 DEF Same, Wired, Brake
<1> HIDE DEF m
<1>6. Frees(u, m) /\ Wired(m)
  BY <1>4, <1>5, OtherTouchFrees
<1>7. Frees(m, WriteDuty(m, "zero")) /\ Wired(WriteDuty(m, "zero"))
  BY <1>6, WriteDutyFrees DEF Duties
<1>8. Frees(k, WriteDuty(m, "zero"))
  BY <1>3, <1>4, <1>6, <1>7, FreesTwice
<1> QED
  BY <1>1, <1>7, <1>8

\* d takes the brake to be free only as k did.
Keeps(k, d) ==
    /\ Wired(d) /\ d.at = k.at /\ d.readAge = k.readAge
    /\ \A b : Freed(k, b) => Freed(d, b)

LEMMA KeepsTwice ==
  ASSUME NEW a, NEW b, NEW d, Keeps(a, b) \/ Frees(a, b), Keeps(b, d) \/ Frees(b, d)
  PROVE  Keeps(a, d)
BY DEF Keeps, Frees

\* The release counts from now on: nothing that applies the brake may be on its way.
LEMMA ReleaseKeeps ==
  ASSUME NEW k, Wired(k), NoApply(k)
  PROVE  LET d == ReleaseBrake(k)
         IN  Keeps(k, d) /\ Wired(d) /\ d.duty \in {k.duty, "zero"}
<1> DEFINE u == Unmarked(k, "release")
           m == [u EXCEPT !.moving = TRUE, !.moveDir = "release", !.moveAge = 0]
           t == [cmd |-> "brake", arg |-> "release", age |-> 0, marks |-> {"release"}]
           w == WriteInStop(m, "drive", "brake", "release", {"release"})
           d == Write(m, "drive", "brake", "release", {"release"})
           X == {"moving", "moveDir", "moveAge"}
<1>1. ReleaseBrake(k) = d
  BY DEF ReleaseBrake
<1>2. d \in {w, SafeStop(w, TRUE)}
  BY DEF Write
<1> HIDE DEF d
<1>3. Frees(k, u) /\ Wired(u) /\ u.wire = k.wire
  BY UnmarkedFrees
<1> HIDE DEF u
<1>4. Same(u, m, X) /\ X \cap Brake = {} /\ m.wire = u.wire
  BY <1>3 DEF Same, Wired, Brake, Fields
<1> HIDE DEF m, X
<1>5. Frees(u, m) /\ Wired(m)
  BY <1>3, <1>4, OtherTouchFrees
<1>6. NoApply(m)
  BY <1>3, <1>4 DEF NoApply
<1>7. NoApply(w)
  BY <1>5, <1>6, NoApplyFrames, NoApplyWritten
<1>8. /\ Wired(w)
      /\ IF Goes(m, "drive")
         THEN /\ Same(m, w, {"wire", "pending"})
              /\ \A l \in Links :
                    /\ w.wire[l] = IF l = "drive" THEN Append(m.wire[l], Frame("brake", "release")) ELSE m.wire[l]
                    /\ w.pending[l] = IF l = "drive" THEN Append(m.pending[l], t) ELSE m.pending[l]
         ELSE Same(m, w, {"up", "faulted"})
  BY <1>5, NoApplyFrames, WriteInStopAdds
<1> HIDE DEF w, t
<1>9. w.at = m.at /\ w.readAge = m.readAge /\ w.applied = m.applied /\ w.duty = m.duty
  BY <1>8 DEF Same, Fields
<1>10. Keeps(m, w)
  BY <1>7, <1>8, <1>9 DEF Keeps, Freed
<1>11. Frees(w, SafeStop(w, TRUE)) /\ Wired(SafeStop(w, TRUE))
  BY <1>8, SafeStopFrees
<1>12. Keeps(k, m) /\ m.duty \in {k.duty, "zero"}
  BY <1>3, <1>5 DEF Keeps, Frees
<1>13. Keeps(k, w)
  BY <1>10, <1>12, KeepsTwice
<1>14. Keeps(k, SafeStop(w, TRUE)) /\ SafeStop(w, TRUE).duty \in {w.duty, "zero"}
  BY <1>11, <1>13, KeepsTwice DEF Frees
<1> QED
  BY <1>1, <1>2, <1>8, <1>9, <1>11, <1>12, <1>13, <1>14

LEMMA StartKeeps ==
  ASSUME NEW k, Wired(k)
  PROVE  Keeps(k, SetThrottle(k, "positive")) /\ Wired(SetThrottle(k, "positive"))
<1> DEFINE a == [k EXCEPT !.duty = "positive"]
           d == WriteDuty(a, "positive")
<1>1. SetThrottle(k, "positive") = d
  BY DEF SetThrottle
<1>2. /\ a.wire = k.wire /\ a.pending = k.pending /\ a.at = k.at /\ a.readAge = k.readAge
      /\ a.applied = k.applied /\ DOMAIN a = Fields
  BY DEF Wired, Fields
<1> HIDE DEF a
<1>3. Wired(a) /\ Keeps(k, a)
  BY <1>2 DEF Wired, Keeps, Freed, NoApply, Awaits
<1>4. Frees(a, d) /\ Wired(d)
  BY <1>3, WriteDutyFrees DEF Duties
<1> HIDE DEF d
<1>5. Keeps(k, d)
  BY <1>3, <1>4, KeepsTwice
<1> QED
  BY <1>1, <1>4, <1>5

LEMMA RestFrees ==
  ASSUME NEW k, Wired(k)
  PROVE  Frees(k, SetThrottle(k, "zero")) /\ Wired(SetThrottle(k, "zero"))
<1> DEFINE a == [k EXCEPT !.duty = "zero"]
           d == WriteDuty(a, "zero")
<1>1. SetThrottle(k, "zero") = d
  BY DEF SetThrottle
<1>2. /\ Same(k, a, {"duty"}) /\ a.duty = "zero" /\ a.applied = k.applied
      /\ {"duty"} \cap {"wire", "pending", "at", "readAge"} = {}
  BY DEF Same, Wired, Fields
<1> HIDE DEF a
<1>3. Frees(k, a) /\ Wired(a)
  BY <1>2, TouchFrees DEF Frees
<1>4. Frees(a, d) /\ Wired(d)
  BY <1>3, WriteDutyFrees DEF Duties
<1> HIDE DEF d
<1> QED
  BY <1>1, <1>3, <1>4, FreesTwice

------------------------------------------------------------------------------
(* Replies.                                                                   *)

\* With the brake's relay at b: what answers the release does not find it applying.
Grounded(k, l, r, b) ==
    l = "drive" /\ r.cmd = "brake" /\ (r.ok \/ r.why = "AT_LIMIT") /\ Awaits(k) => b # "apply"

\* d is k after the line r.
Told(k, d, l, r, b) ==
    /\ Wired(d) /\ Freed(d, b) /\ d.duty \in {k.duty, "zero"}
    /\ \/ d.at = k.at /\ d.readAge = k.readAge
       \/ l = "drive" /\ r.cmd = "angles" /\ d.at = r.at /\ d.readAge = 0

LEMMA FreesTold ==
  ASSUME NEW k, NEW d, Frees(k, d), NEW b, Freed(k, b), NEW l, NEW r
  PROVE  Told(k, d, l, r, b)
BY DEF Told, Frees

\* An answered frame's transaction gone.
Less(k, l, i, b) == [k EXCEPT !.pending[l] = RemoveAt(@, i), !.whole = b]

LEMMA AnsweredFrees ==
  ASSUME NEW k, Wired(k), NEW l \in Links, NEW i, i \in 1 .. Len(k.pending[l]), NEW b
  PROVE  Frees(k, Less(k, l, i, b)) /\ Wired(Less(k, l, i, b)) /\ Less(k, l, i, b).wire = k.wire
<1> DEFINE p == k.pending[l]
           q == RemoveAt(p, i)
           a == Less(k, l, i, b)
<1>1. DOMAIN k = Fields /\ DOMAIN k.wire = Links /\ DOMAIN k.pending = Links
  BY DEF Wired
<1>2. /\ a.wire = k.wire /\ DOMAIN a = Fields /\ a.at = k.at /\ a.readAge = k.readAge
      /\ a.duty = k.duty /\ a.applied = k.applied
      /\ a.pending = [k.pending EXCEPT ![l] = q]
  BY <1>1 DEF Fields, Less
<1> HIDE DEF a
<1>3. p \in Seq(TxnsOf(l)) /\ k.pending[l] = p
  BY DEF Wired
<1>4. q \in Seq(TxnsOf(l)) /\ \A n \in DOMAIN q : \E m \in DOMAIN p : q[n] = p[m]
  BY <1>3, RemovedIsSequence, RemovedOrder
<1> HIDE DEF q, p
<1>5. a.pending[l] = q /\ DOMAIN a.pending = Links /\ \A m \in Links : m # l => a.pending[m] = k.pending[m]
  BY <1>1, <1>2
<1>6. Wired(a)
  <2> SUFFICES ASSUME NEW m \in Links PROVE a.pending[m] \in Seq(TxnsOf(m))
    BY <1>1, <1>2, <1>5 DEF Wired
  <2>1. CASE m = l
    BY <1>4, <1>5, <2>1
  <2>2. CASE m # l
    BY <1>5, <2>2 DEF Wired
  <2> QED
    BY <2>1, <2>2
<1>7. Awaits(a) => Awaits(k)
  <2>1. CASE l = "drive"
    BY <1>3, <1>4, <1>5, <2>1 DEF Awaits
  <2>2. CASE l # "drive"
    BY <1>5, <2>2 DEF Awaits, Links
  <2> QED
    BY <2>1, <2>2
<1>8. Frees(k, a)
  BY <1>2, <1>6, <1>7 DEF Frees, Freed, NoApply
<1> QED
  BY <1>2, <1>6, <1>8 DEF a

\* Only the answer to the release that counts frees the brake.
LEMMA OnReplyTells ==
  ASSUME NEW k, Wired(k), NEW l \in Links, NEW r, NEW b, Freed(k, b), Grounded(k, l, r, b)
  PROVE  Told(k, OnReply(k, l, r), l, r, b)
<1> DEFINE w == Waiting(k, l, r.cmd)
           i == CHOOSE j \in w : \A n \in w : j <= n
           t == k.pending[l][i]
           a == [k EXCEPT !.pending[l] = RemoveAt(@, i),
                          !.whole = @ /\ ("stop" \in t.marks => AcksStop(l, t, r))]
           x == k.whole /\ ("stop" \in t.marks => AcksStop(l, t, r))
           z == Less(k, l, i, x)
<1>1. OnReply(k, l, r) = IF w = {} THEN k
                         ELSE IF l = "accel" THEN OnAccelReply(a, t, r) ELSE OnDriveReply(a, t, r)
  BY DEF OnReply
<1>2. a = z
  BY DEF Less
<1>3. CASE w = {}
  <2>1. Frees(k, k)
    BY FreesSelf
  <2> QED
    BY <1>1, <1>3, <2>1, FreesTold
<1>4. CASE w # {}
  <2>1. k.pending[l] \in Seq(TxnsOf(l))
    BY DEF Wired
  <2>2. i \in 1 .. Len(k.pending[l]) /\ k.pending[l][i].cmd = r.cmd /\ i \in DOMAIN k.pending[l]
    BY <1>4, <2>1, FirstWaiting
  <2>3. l = "drive" => r.cmd \in {"gear", "brake", "alive", "angles", "steer"}
    <3> HAVE l = "drive"
    <3> DEFINE y == k.pending["drive"][i]
    <3>1. y \in TxnsOf("drive") /\ y.cmd = r.cmd
      BY <2>1, <2>2
    <3> HIDE DEF y
    <3>2. Frame(y.cmd, y.arg) \in DriveFrames
      BY <3>1 DEF TxnsOf, FramesOf, Frame
    <3>3. y.cmd \in {"gear", "brake", "alive", "angles", "steer"}
      BY <3>2 DEF Frame, DriveFrames
    <3> QED
      BY <3>1, <3>3
  <2>4. l = "drive" /\ "release" \in t.marks => Awaits(k)
    BY <2>2 DEF Awaits
  <2> HIDE DEF i, x, a
  <2>5. Frees(k, z) /\ Wired(z) /\ z.wire = k.wire
    <3>1. i \in 1 .. Len(k.pending[l])
      BY <2>2
    <3> QED
      BY <3>1, AnsweredFrees
  <2> HIDE DEF z
  <2>51. a = z
    BY <1>2
  <2> HIDE DEF w, t
  <2>6. Frees(k, a) /\ Wired(a) /\ a.wire = k.wire /\ Freed(a, b) /\ (Awaits(a) => Awaits(k))
        /\ a.at = k.at /\ a.readAge = k.readAge /\ a.duty \in {k.duty, "zero"}
    <3>1. Frees(k, a) /\ Wired(a) /\ a.wire = k.wire
      BY <2>5, <2>51
    <3> QED
      BY <3>1 DEF Frees
  <2>7. ASSUME NEW d, NEW X, Same(a, d, X), X \cap Brake = {}
        PROVE  /\ Told(k, d, l, r, b)
               /\ \A brake : Told(k, Fault(d, brake), l, r, b)
    <3>1. Frees(a, d) /\ Wired(d)
      BY <2>6, <2>7, OtherTouchFrees
    <3>2. Frees(k, d)
      BY <2>6, <3>1, FreesTwice
    <3>3. \A brake : Frees(d, Fault(d, brake))
      BY <3>1, FaultFrees
    <3>4. \A brake : Frees(k, Fault(d, brake))
      BY <3>2, <3>3, FreesTwice
    <3> QED
      BY <3>2, <3>4, FreesTold
  <2>8. CASE l = "accel"
    <3> DEFINE e == DutyAcked(a, t, r)
               u == [a EXCEPT !.timeouts = r.count]
    <3>1. Same(a, e, {"acked", "latestAcked", "alive"}) /\ Same(a, u, {"timeouts"}) /\ Same(a, a, {})
      BY <2>6 DEF Same, Wired, DutyAcked
    <3>2. {"acked", "latestAcked", "alive"} \cap Brake = {} /\ {"timeouts"} \cap Brake = {} /\ {} \cap Brake = {}
      BY DEF Brake
    <3>3. OnReply(k, l, r) \in {a, e, u, Fault(a, FALSE), Fault(u, FALSE)}
      BY <1>1, <1>4, <2>8 DEF OnAccelReply, ReadBack
    <3> HIDE DEF e, u
    <3>4. Told(k, e, l, r, b)
      BY <2>7, <3>1, <3>2
    <3>5. Told(k, u, l, r, b) /\ Told(k, Fault(u, FALSE), l, r, b)
      BY <2>7, <3>1, <3>2
    <3>6. Told(k, a, l, r, b) /\ Told(k, Fault(a, FALSE), l, r, b)
      BY <2>7, <3>1, <3>2
    <3> QED
      BY <3>3, <3>4, <3>5, <3>6
  <2>9. CASE l = "drive"
    <3> DEFINE g == [a EXCEPT !.gear = IF r.ok THEN t.arg ELSE "unknown"]
               e == [a EXCEPT !.applied = FALSE]
               u == [a EXCEPT !.trips = r.count]
               v == [u EXCEPT !.announced = FALSE]
               p == [a EXCEPT !.at = r.at, !.readAge = 0]
    <3>1. /\ Same(a, a, {}) /\ Same(a, g, {"gear"}) /\ Same(a, u, {"trips"})
          /\ Same(a, v, {"trips", "announced"})
      BY <2>6 DEF Same, Wired
    <3>2. /\ {} \cap Brake = {} /\ {"gear"} \cap Brake = {}
          /\ {"trips"} \cap Brake = {} /\ {"trips", "announced"} \cap Brake = {}
      BY DEF Brake
    <3>3. OnReply(k, l, r) = OnDriveReply(a, t, r) /\ r.cmd \in {"gear", "brake", "alive", "angles", "steer"}
      BY <1>1, <1>4, <2>3, <2>9
    <3>4. \/ OnReply(k, l, r) \in {a, g, u, v, Fault(a, TRUE), Fault(u, FALSE)}
          \/ OnReply(k, l, r) = e /\ r.cmd = "brake" /\ "release" \in t.marks /\ (r.ok \/ r.why = "AT_LIMIT")
          \/ OnReply(k, l, r) = p /\ r.cmd = "angles"
      <4>1. CASE r.cmd = "gear"
        BY <3>3, <4>1 DEF OnDriveReply
      <4>2. CASE r.cmd = "brake"
        BY <3>3, <4>2 DEF OnDriveReply, OnBrakeReply
      <4>3. CASE r.cmd = "alive"
        BY <3>3, <4>3 DEF OnDriveReply, NoteTrips
      <4>4. CASE r.cmd = "angles"
        BY <3>3, <4>4 DEF OnDriveReply
      <4>5. CASE r.cmd = "steer"
        BY <3>3, <4>5 DEF OnDriveReply
      <4> QED
        BY <3>3, <4>1, <4>2, <4>3, <4>4, <4>5
    <3>5. /\ e.wire = a.wire /\ e.pending = a.pending /\ e.at = a.at /\ e.readAge = a.readAge
          /\ e.duty = a.duty /\ DOMAIN e = Fields
      BY <2>6 DEF Wired, Fields
    <3>6. /\ p.wire = a.wire /\ p.pending = a.pending /\ p.applied = a.applied /\ p.at = r.at /\ p.readAge = 0
          /\ p.duty = a.duty /\ DOMAIN p = Fields
      BY <2>6 DEF Wired, Fields
    <3> HIDE DEF g, e, u, v, p
    <3>7. ASSUME r.cmd = "brake", "release" \in t.marks, r.ok \/ r.why = "AT_LIMIT" PROVE Told(k, e, l, r, b)
      <4>1. Awaits(k) /\ b # "apply"
        BY <2>4, <2>9, <3>7 DEF Grounded
      <4>2. NoApply(k)
        BY <4>1 DEF Freed
      <4>3. NoApply(e)
        BY <2>6, <3>5, <4>2 DEF NoApply
      <4>4. Freed(e, b)
        BY <4>1, <4>3 DEF Freed
      <4>5. Wired(e)
        BY <2>6, <3>5 DEF Wired
      <4> QED
        BY <2>6, <3>5, <4>4, <4>5 DEF Told
    <3>8. ASSUME r.cmd = "angles" PROVE Told(k, p, l, r, b)
      <4>1. Freed(p, b)
        BY <2>6, <3>6 DEF Freed, NoApply, Awaits
      <4>2. Wired(p)
        BY <2>6, <3>6 DEF Wired
      <4> QED
        BY <2>6, <2>9, <3>6, <3>8, <4>1, <4>2 DEF Told
    <3>9. Told(k, g, l, r, b)
      BY <2>7, <3>1, <3>2
    <3>10. Told(k, u, l, r, b) /\ Told(k, Fault(u, FALSE), l, r, b)
      BY <2>7, <3>1, <3>2
    <3>11. Told(k, v, l, r, b)
      BY <2>7, <3>1, <3>2
    <3>12. Told(k, a, l, r, b) /\ Told(k, Fault(a, TRUE), l, r, b)
      BY <2>7, <3>1, <3>2
    <3> QED
      BY <3>4, <3>7, <3>8, <3>9, <3>10, <3>11, <3>12
  <2> QED
    BY <2>8, <2>9 DEF Links
<1> QED
  BY <1>3, <1>4

LEMMA OnLineTells ==
  ASSUME NEW k, Wired(k), NEW l \in Links, NEW r, NEW b, Freed(k, b), Grounded(k, l, r, b)
  PROVE  Told(k, OnLine(k, l, r), l, r, b)
<1> DEFINE h == IF l = "accel" THEN [k EXCEPT !.heard = TRUE] ELSE k
           v == [h EXCEPT !.announced = TRUE]
<1>1. OnLine(k, l, r) = IF r.cmd = "trip" THEN Fault(v, FALSE) ELSE OnReply(h, l, r)
  BY DEF OnLine
<1>2. /\ Same(k, h, {"heard"}) /\ Same(k, v, {"heard", "announced"})
      /\ {"heard"} \cap Brake = {} /\ {"heard", "announced"} \cap Brake = {}
      /\ h.pending = k.pending
  BY DEF Same, Wired, Brake, Fields
<1> HIDE DEF h, v
<1>3. Frees(k, h) /\ Wired(h) /\ Frees(k, v) /\ Wired(v)
  BY <1>2, OtherTouchFrees
<1>4. Frees(k, Fault(v, FALSE))
  BY <1>3, FaultFrees, FreesTwice
<1>5. Freed(h, b) /\ Grounded(h, l, r, b) /\ h.at = k.at /\ h.readAge = k.readAge /\ h.duty \in {k.duty, "zero"}
  BY <1>3 DEF Frees, Grounded
<1>6. Told(h, OnReply(h, l, r), l, r, b)
  BY <1>3, <1>5, OnReplyTells
<1>7. Told(k, OnReply(h, l, r), l, r, b)
  BY <1>5, <1>6 DEF Told
<1> QED
  BY <1>1, <1>4, <1>7, FreesTold

LEMMA LinkLostFrees ==
  ASSUME NEW k, Wired(k), NEW l
  PROVE  Frees(k, LinkLost(k, l))
<1> DEFINE u == [k EXCEPT !.up[l] = FALSE]
<1>1. Same(k, u, {"up"}) /\ {"up"} \cap Brake = {}
  BY DEF Same, Wired, Brake
<1> HIDE DEF u
<1>2. Frees(k, u) /\ Wired(u)
  BY <1>1, OtherTouchFrees
<1>3. Frees(k, Fault(u, TRUE))
  BY <1>2, FaultFrees, FreesTwice
<1> QED
  BY <1>3 DEF LinkLost, u

------------------------------------------------------------------------------
(* tick().                                                                    *)

LEMMA DeadlineFrees ==
  ASSUME NEW k, Wired(k), NEW l \in Links
  PROVE  Frees(k, Deadline(k, l)) /\ Wired(Deadline(k, l))
<1> DEFINE a == [k EXCEPT !.pending[l] = <<>>, !.alive = @ /\ l # "accel"]
           d == Deadline(k, l)
<1>1. d \in {Fault(a, TRUE), k}
  BY DEF Deadline
<1>2. DOMAIN k = Fields /\ DOMAIN k.wire = Links /\ DOMAIN k.pending = Links
  BY DEF Wired
<1>3. /\ a.wire = k.wire /\ a.pending = [k.pending EXCEPT ![l] = <<>>] /\ DOMAIN a = Fields
      /\ a.at = k.at /\ a.readAge = k.readAge /\ a.duty = k.duty /\ a.applied = k.applied
  BY <1>2 DEF Fields
<1> HIDE DEF a, d
<1>4. a.pending[l] = <<>> /\ DOMAIN a.pending = Links /\ \A m \in Links : m # l => a.pending[m] = k.pending[m]
  BY <1>2, <1>3
<1>5. Wired(a)
  <2> SUFFICES ASSUME NEW m \in Links PROVE a.pending[m] \in Seq(TxnsOf(m))
    BY <1>2, <1>3, <1>4 DEF Wired
  <2>1. <<>> \in Seq(TxnsOf(m))
    OBVIOUS
  <2>2. CASE m = l
    BY <1>4, <2>1, <2>2
  <2>3. CASE m # l
    BY <1>4, <2>3 DEF Wired
  <2> QED
    BY <2>2, <2>3
<1>6. Awaits(a) => Awaits(k)
  <2>1. CASE l = "drive"
    <3>1. DOMAIN a.pending["drive"] = {}
      BY <1>4, <2>1
    <3> QED
      BY <3>1 DEF Awaits
  <2>2. CASE l # "drive"
    BY <1>4, <2>2 DEF Awaits, Links
  <2> QED
    BY <2>1, <2>2
<1>7. Frees(k, a)
  BY <1>3, <1>5, <1>6 DEF Frees, Freed, NoApply
<1>8. Frees(a, Fault(a, TRUE)) /\ Wired(Fault(a, TRUE))
  BY <1>5, FaultFrees
<1>9. Frees(k, Fault(a, TRUE)) /\ Frees(k, k)
  BY <1>7, <1>8, FreesTwice, FreesSelf
<1> QED
  BY <1>1, <1>8, <1>9 DEF d

\* After a touch of nothing here, a frame that does not apply the brake.
LEMMA TouchWriteFrees ==
  ASSUME NEW k, NEW a, Frees(k, a), NEW X, NEW m, Same(a, m, X), X \cap Brake = {},
         NEW l \in Links, NEW cmd, NEW arg, Frame(cmd, arg) \in FramesOf(l), l = "accel" \/ Frame(cmd, arg) # ApplyFrame
  PROVE  Frees(k, m) /\ Frees(k, Write(m, l, cmd, arg, {}))
<1>1. Wired(a)
  BY DEF Frees
<1>2. Frees(a, m) /\ Wired(m)
  BY <1>1, OtherTouchFrees
<1>3. MayGo(m, l, cmd, arg) /\ {} \in SUBSET Marks /\ "release" \notin {}
  BY MostMayGo
<1> DEFINE w == Write(m, l, cmd, arg, {})
<1>4. Frees(m, w)
  BY <1>2, <1>3, WriteFrees
<1> HIDE DEF w
<1>5. Frees(k, m)
  BY <1>2, FreesTwice
<1>6. Frees(k, w)
  BY <1>4, <1>5, FreesTwice
<1> QED
  BY <1>5, <1>6 DEF w

LEMMA TickStepsFree ==
  ASSUME NEW k, NEW a, Frees(k, a)
  PROVE  LET h == HeartbeatChecked(a)
             e == DriveKeptAlive(a)
             p == AccelProbed(a)
             q == Polled(a)
             b == BrakeBounded(a)
         IN  Frees(k, h) /\ Frees(k, e) /\ Frees(k, p) /\ Frees(k, q) /\ Frees(k, b)
<1>0. Wired(a) /\ Same(a, a, {}) /\ {} \cap Brake = {}
  BY DEF Frees, Same, Wired
<1> DEFINE s == SafeStop(a, TRUE)
<1>1. Frees(k, s) /\ HeartbeatChecked(a) \in {s, a}
  <2>1. Frees(a, s)
    BY <1>0, SafeStopFrees
  <2>2. Frees(k, s)
    BY <2>1, FreesTwice
  <2> QED
    BY <2>2 DEF HeartbeatChecked
<1> DEFINE x == Write(a, "drive", "alive", "", {})
           m == [a EXCEPT !.moving = FALSE]
           y == Write(m, "drive", "brake", "stop", {})
<1>2. Same(a, m, {"moving"}) /\ {"moving"} \cap Brake = {}
  BY <1>0 DEF Same, Wired, Brake
<1>3. Frees(k, DriveKeptAlive(a))
  <2>1. DriveKeptAlive(a) \in {x, y, a}
    BY DEF DriveKeptAlive
  <2> HIDE DEF m
  <2>2. Frees(k, x)
    BY <1>0, NoApplyFrames, TouchWriteFrees
  <2>3. Frees(k, y)
    BY <1>2, NoApplyFrames, TouchWriteFrees
  <2> HIDE DEF x, y
  <2> QED
    BY <2>1, <2>2, <2>3
<1> DEFINE z == Write(a, "accel", "alive", "", {})
           t == Write(a, "accel", "read", "", {})
<1>4. Frees(k, AccelProbed(a))
  <2>1. AccelProbed(a) \in {z, t, a}
    BY DEF AccelProbed
  <2>2. Frees(k, z)
    BY <1>0, NoApplyFrames, TouchWriteFrees
  <2>3. Frees(k, t)
    BY <1>0, NoApplyFrames, TouchWriteFrees
  <2> HIDE DEF z, t
  <2> QED
    BY <2>1, <2>2, <2>3
<1> DEFINE r == Write(a, "drive", "angles", "", {})
<1>5. Frees(k, Polled(a))
  <2>1. Polled(a) \in {r, a}
    BY DEF Polled
  <2>2. Frees(k, r)
    BY <1>0, NoApplyFrames, TouchWriteFrees
  <2> HIDE DEF r
  <2> QED
    BY <2>1, <2>2
<1> DEFINE u == [a EXCEPT !.moveDir = "none", !.moveAge = 0]
           v == [a EXCEPT !.moveDir = "none", !.moveAge = 0, !.moving = FALSE]
           w == Write(v, "drive", "brake", "stop", {})
           f == Fault(w, TRUE)
           X == {"moveDir", "moveAge", "moving"}
<1>6. Frees(k, BrakeBounded(a))
  <2>1. BrakeBounded(a) \in {a, u, w, f}
    BY DEF BrakeBounded
  <2>2. Same(a, u, X) /\ Same(a, v, X) /\ X \cap Brake = {}
    BY <1>0 DEF Same, Wired, Brake
  <2> HIDE DEF u, v, X
  <2>3. Frees(k, u)
    BY <2>2, NoApplyFrames, TouchWriteFrees
  <2>4. Frees(k, w)
    BY <2>2, NoApplyFrames, TouchWriteFrees
  <2> HIDE DEF w
  <2>5. Frees(w, f)
    BY <2>4, FaultFrees DEF Frees
  <2> HIDE DEF f
  <2>6. Frees(k, f)
    BY <2>4, <2>5, FreesTwice
  <2> QED
    BY <2>1, <2>3, <2>4, <2>6
<1> HIDE DEF s
<1>7. Frees(k, HeartbeatChecked(a))
  BY <1>1
<1> QED
  BY <1>3, <1>4, <1>5, <1>6, <1>7

LEMMA TickFrees ==
  ASSUME NEW k, Wired(k)
  PROVE  Frees(k, Tick(k))
<1> DEFINE k1 == Deadline(k, "accel")
           k2 == Deadline(k1, "drive")
           k3 == HeartbeatChecked(k2)
           k4 == DriveKeptAlive(k3)
           k5 == AccelProbed(k4)
           k6 == Polled(k5)
           k7 == BrakeBounded(k6)
           d == [k7 EXCEPT !.ticked = TRUE]
<1>1. Tick(k) = d
  BY DEF Tick
<1>2. Frees(k, k1) /\ Wired(k1)
  BY DeadlineFrees DEF Links
<1> HIDE DEF k1
<1>3. Frees(k1, k2)
  BY <1>2, DeadlineFrees DEF Links
<1> HIDE DEF k2
<1>4. Frees(k, k2)
  BY <1>2, <1>3, FreesTwice
<1>5. Frees(k, k3)
  BY <1>4, TickStepsFree
<1> HIDE DEF k3
<1>6. Frees(k, k4)
  BY <1>5, TickStepsFree
<1> HIDE DEF k4
<1>7. Frees(k, k5)
  BY <1>6, TickStepsFree
<1> HIDE DEF k5
<1>8. Frees(k, k6)
  BY <1>7, TickStepsFree
<1> HIDE DEF k6
<1>9. Frees(k, k7) /\ Wired(k7)
  BY <1>8, TickStepsFree DEF Frees
<1> HIDE DEF k7
<1>10. Same(k7, d, {"ticked"}) /\ {"ticked"} \cap Brake = {}
  BY <1>9 DEF Same, Wired, Brake
<1> HIDE DEF d
<1>11. Frees(k7, d)
  BY <1>9, <1>10, OtherTouchFrees
<1>12. Frees(k, d)
  BY <1>9, <1>11, FreesTwice
<1> QED
  BY <1>1, <1>12

------------------------------------------------------------------------------
(* A command.                                                                 *)

LEMMA FreesKeeps ==
  ASSUME NEW k, NEW d, Frees(k, d)
  PROVE  Keeps(k, d) /\ Wired(d) /\ d.duty \in {k.duty, "zero"}
BY DEF Frees, Keeps

\* A release may go out, as far as what is on the way is concerned.
MayRelease(k) == k.stopped = TRUE \/ NoApply(k)

LEMMA TryGearFrees ==
  ASSUME NEW x, Wired(x.c), NoApply(x.c), NEW cmd, cmd.gear \in {"D", "N"}
  PROVE  LET y == TryGear(x, cmd)
         IN  Frees(x.c, y.c) /\ Wired(y.c) /\ MayRelease(y.c)
<1> DEFINE d == Gear(x.c, cmd.gear)
<1>1. Frees(x.c, d) /\ Wired(d) /\ (d.stopped = TRUE \/ (NoApply(x.c) => NoApply(d)))
  BY GearFrees
<1>2. Frees(x.c, x.c)
  BY FreesSelf
<1> HIDE DEF d
<1>3. TryGear(x, cmd).c = d \/ TryGear(x, cmd) = x
  BY DEF TryGear, d
<1> QED
  BY <1>1, <1>2, <1>3 DEF MayRelease

LEMMA TryBrakeKeeps ==
  ASSUME NEW x, Wired(x.c), MayRelease(x.c), NEW cmd
  PROVE  LET y == TryBrake(x, cmd)
         IN  Keeps(x.c, y.c) /\ Wired(y.c) /\ y.c.duty \in {x.c.duty, "zero"}
<1> DEFINE a == ApplyBrake(x.c)
           r == ReleaseBrake(x.c)
           y == TryBrake(x, cmd)
<1>1. Keeps(x.c, a) /\ Wired(a) /\ a.duty \in {x.c.duty, "zero"}
  BY ApplyFrees, FreesKeeps
<1>2. NoApply(x.c) => Keeps(x.c, r) /\ Wired(r) /\ r.duty \in {x.c.duty, "zero"}
  BY ReleaseKeeps
<1>3. Keeps(x.c, x.c)
  BY FreesSelf, FreesKeeps
<1> HIDE DEF a, r
<1>4. y.c = a \/ y = x \/ (y.c = r /\ x.c.stopped # TRUE)
  BY DEF TryBrake, a, r, CanRelease, Open
<1> HIDE DEF y
<1>5. Keeps(x.c, y.c) /\ Wired(y.c) /\ y.c.duty \in {x.c.duty, "zero"}
  BY <1>1, <1>2, <1>3, <1>4 DEF MayRelease
<1> QED
  BY <1>5 DEF y

LEMMA TryThrottleKeeps ==
  ASSUME NEW x, Wired(x.c), NEW cmd, cmd.throttle \in Duties
  PROVE  LET y == TryThrottle(x, cmd)
         IN  Keeps(x.c, y.c) /\ Wired(y.c) /\ (y.c.duty \in {x.c.duty, "zero"} \/ CanThrottle(x.c))
<1> DEFINE p == SetThrottle(x.c, "positive")
           z == SetThrottle(x.c, "zero")
           y == TryThrottle(x, cmd)
<1>1. Keeps(x.c, p) /\ Wired(p)
  BY StartKeeps
<1>2. Keeps(x.c, z) /\ Wired(z) /\ z.duty \in {x.c.duty, "zero"}
  BY RestFrees, FreesKeeps
<1>3. Keeps(x.c, x.c)
  BY FreesSelf, FreesKeeps
<1> HIDE DEF p, z
<1>4. y.c = z \/ y = x \/ (y.c = p /\ CanThrottle(x.c))
  BY DEF TryThrottle, p, z, Duties
<1> HIDE DEF y
<1>5. Keeps(x.c, y.c) /\ Wired(y.c) /\ (y.c.duty \in {x.c.duty, "zero"} \/ CanThrottle(x.c))
  BY <1>1, <1>2, <1>3, <1>4
<1> QED
  BY <1>5 DEF y

LEMMA TrySteerFrees ==
  ASSUME NEW x, Wired(x.c), NEW cmd, cmd.steer \in {"stop", "turn"}
  PROVE  Frees(x.c, TrySteer(x, cmd).c)
<1> DEFINE d == Steer(x.c, cmd.steer)
<1>1. Frees(x.c, d)
  BY SteerFrees
<1>2. Frees(x.c, x.c)
  BY FreesSelf
<1> HIDE DEF d
<1>3. TrySteer(x, cmd).c = d \/ TrySteer(x, cmd) = x
  BY DEF TrySteer, d
<1> QED
  BY <1>1, <1>2, <1>3

------------------------------------------------------------------------------
(* The rig, without a slow link.                                             *)

StartInv == Freed(c, drive.brake) /\ Seen(c, drive.at)

\* What StartsReleased says of one step.
StartOk ==
    c.duty = "zero" /\ c'.duty = "positive" =>
        /\ drive.brake # "apply" /\ drive.at # "applied"
        /\ \A i \in DOMAIN c.wire["drive"] : c.wire["drive"][i].arg # "apply"

LEMMA StaysAtRest ==
  ASSUME c'.duty \in {c.duty, "zero"}
  PROVE  StartOk
BY DEF StartOk

\* The drive module did nothing, or switched its brake off.
LEMMA StepFrees ==
  ASSUME StartInv, Frees(c, c'), drive'.brake \in {drive.brake, "stop"}, drive'.at = drive.at
  PROVE  StartInv' /\ StartOk
<1>1. Freed(c', drive.brake) /\ c'.at = c.at /\ c'.readAge = c.readAge /\ c'.duty \in {c.duty, "zero"}
  BY DEF StartInv, Frees
<1>2. Freed(c', drive'.brake)
  BY <1>1 DEF Freed
<1>3. Seen(c', drive'.at)
  BY <1>1 DEF StartInv, Seen
<1> QED
  BY <1>1, <1>2, <1>3, StaysAtRest DEF StartInv

LEMMA CommandStarts ==
  ASSUME RigInv, AckInv, StartInv, NEW cmd \in Commands, Command(cmd)
  PROVE  StartInv' /\ StartOk
<1> DEFINE x0 == [c |-> Fed, a |-> adapter]
           x1 == TryGear(x0, cmd)
           x2 == TryBrake(x1, cmd)
           x3 == TryThrottle(x2, cmd)
           x4 == TrySteer(x3, cmd)
           b == drive.brake
<1>1. c' = x4.c /\ drive' = drive /\ Served
  BY DEF Command, AckInv, Both, Applied
<1>2. cmd.gear \in {"D", "N"} /\ cmd.steer \in {"stop", "turn"} /\ cmd.throttle \in Duties
  BY RigAssumption DEF Commands
<1>3. \A l \in Links : c.wire[l] = <<>> /\ DOMAIN c.wire[l] = {}
  BY <1>1, NothingWaits
<1>4. Keeps(c, x0.c) /\ Wired(x0.c) /\ NoApply(x0.c) /\ x0.c.duty = c.duty
  <2>1. Wired(Fed) /\ Same(c, Fed, {"hb"}) /\ Wired(c)
    BY WiredNow
  <2>2. {"hb"} \cap Brake = {} /\ Fed.wire = c.wire /\ Fed.duty = c.duty
    BY <2>1 DEF Brake, Same, Fields
  <2>3. Keeps(c, Fed)
    BY <2>1, <2>2, OtherTouchFrees, FreesKeeps
  <2>4. NoApply(Fed)
    BY <1>3, <2>2 DEF NoApply, Links
  <2> QED
    BY <2>1, <2>2, <2>3, <2>4
<1> HIDE DEF x0
<1>5. Keeps(x0.c, x1.c) /\ Wired(x1.c) /\ MayRelease(x1.c) /\ x1.c.duty \in {x0.c.duty, "zero"}
  <2>1. Frees(x0.c, x1.c) /\ Wired(x1.c) /\ MayRelease(x1.c)
    <3>1. Wired(x0.c) /\ NoApply(x0.c) /\ cmd.gear \in {"D", "N"}
      BY <1>2, <1>4
    <3> QED
      BY <3>1, TryGearFrees
  <2> HIDE DEF x1
  <2> QED
    BY <2>1, FreesKeeps
<1> HIDE DEF x1
<1>6. Keeps(x1.c, x2.c) /\ Wired(x2.c) /\ x2.c.duty \in {x1.c.duty, "zero"}
  BY <1>5, TryBrakeKeeps
<1> HIDE DEF x2
<1>7. Keeps(x2.c, x3.c) /\ Wired(x3.c) /\ (x3.c.duty \in {x2.c.duty, "zero"} \/ CanThrottle(x2.c))
  BY <1>2, <1>6, TryThrottleKeeps
<1> HIDE DEF x3
<1>8. Keeps(x3.c, x4.c) /\ x4.c.duty \in {x3.c.duty, "zero"}
  BY <1>2, <1>7, TrySteerFrees, FreesKeeps
<1> HIDE DEF x4
<1>9. Keeps(c, x2.c)
  BY <1>4, <1>5, <1>6, KeepsTwice
<1>10. Keeps(c, x4.c)
  BY <1>7, <1>8, <1>9, KeepsTwice
<1>11. StartInv'
  <2>1. Freed(c', b) /\ c'.at = c.at /\ c'.readAge = c.readAge
    BY <1>1, <1>10 DEF StartInv, Keeps
  <2>2. Freed(c', drive'.brake)
    BY <1>1, <2>1
  <2>3. Seen(c', drive'.at)
    BY <1>1, <2>1 DEF StartInv, Seen
  <2> QED
    BY <2>2, <2>3 DEF StartInv
<1>12. CASE x3.c.duty \in {x2.c.duty, "zero"}
  <2>1. c'.duty \in {c.duty, "zero"}
    BY <1>1, <1>4, <1>5, <1>6, <1>8, <1>12
  <2> QED
    BY <1>11, <2>1, StaysAtRest
<1>13. CASE CanThrottle(x2.c)
  <2>1. x2.c.applied # TRUE /\ x2.c.readAge <= MaxAge /\ x2.c.at = "released"
    BY <1>13 DEF CanThrottle, Fresh
  <2>2. Freed(x2.c, b) /\ c.at = "released" /\ c.readAge <= MaxAge
    BY <1>9, <2>1 DEF StartInv, Keeps
  <2>3. b # "apply"
    BY <2>1, <2>2 DEF Freed
  <2>4. drive.at # "applied"
    BY <2>2 DEF StartInv, Seen
  <2>5. \A i \in DOMAIN c.wire["drive"] : c.wire["drive"][i].arg # "apply"
    BY <1>3 DEF Links
  <2>6. StartOk
    BY <2>3, <2>4, <2>5 DEF StartOk
  <2> QED
    BY <1>11, <2>6
<1> QED
  BY <1>7, <1>12, <1>13

\* Stops, the operator's calls and the tick.
LEMMA CallsStart ==
  ASSUME RigInv, StartInv, EstopHeld \/ BridgeStops \/ Resume \/ HumanClears \/ TickRuns
  PROVE  StartInv' /\ StartOk
<1>0. Wired(c) /\ Wired(Fed) /\ Frees(c, Fed)
  <2>1. Wired(c) /\ Wired(Fed) /\ Same(c, Fed, {"hb"}) /\ {"hb"} \cap Brake = {}
    BY WiredNow DEF Brake
  <2> QED
    BY <2>1, OtherTouchFrees
<1>1. CASE EstopHeld
  <2>1. c' = SafeStop(Fed, TRUE) /\ drive' = drive
    BY <1>1 DEF EstopHeld, Stop, Both, Stopping
  <2>2. Frees(Fed, SafeStop(Fed, TRUE))
    BY <1>0, SafeStopFrees
  <2>3. Frees(c, c')
    BY <1>0, <2>1, <2>2, FreesTwice
  <2> QED
    BY <2>1, <2>3, StepFrees
<1>2. CASE BridgeStops
  <2>1. c' = SafeStop(c, TRUE) /\ drive' = drive
    BY <1>2 DEF BridgeStops, Stop, Both, Stopping
  <2>2. Frees(c, c')
    BY <1>0, <2>1, SafeStopFrees
  <2> QED
    BY <2>1, <2>2, StepFrees
<1>3. CASE Resume
  <2>1. c' = Unlatched(c) /\ drive' = drive
    BY <1>3 DEF Resume
  <2>2. Frees(c, c')
    BY <1>0, <2>1, UnlatchedFrees
  <2> QED
    BY <2>1, <2>2, StepFrees
<1>4. CASE HumanClears
  <2>1. c' = ClearFaults(c) /\ drive' = drive
    BY <1>4 DEF HumanClears
  <2>2. Frees(c, c')
    BY <1>0, <2>1, ClearFrees
  <2> QED
    BY <2>1, <2>2, StepFrees
<1>5. CASE TickRuns
  <2>1. c' = Tick(c) /\ drive' = drive
    BY <1>5 DEF TickRuns
  <2>2. Frees(c, c')
    BY <1>0, <2>1, TickFrees
  <2> QED
    BY <2>1, <2>2, StepFrees
<1> QED
  BY <1>1, <1>2, <1>3, <1>4, <1>5

------------------------------------------------------------------------------
(* The boards.                                                                *)

\* A frame off the wire.
LEMMA UntakenFrees ==
  ASSUME RigInv, NEW l \in Links, c.wire[l] # <<>>
  PROVE  Frees(c, Untaken(l)) /\ Wired(Untaken(l))
<1> DEFINE k == Untaken(l)
           v == c.wire[l]
<1>1. Wired(c) /\ k = [c EXCEPT !.wire[l] = Tail(@)]
  BY WiredNow DEF Untaken
<1> HIDE DEF k
<1>2. DOMAIN c = Fields /\ DOMAIN c.wire = Links /\ DOMAIN c.pending = Links
  BY <1>1 DEF Wired
<1>3. /\ k.pending = c.pending /\ k.at = c.at /\ k.readAge = c.readAge /\ k.duty = c.duty /\ k.applied = c.applied
      /\ DOMAIN k = Fields /\ DOMAIN k.wire = Links
      /\ k.wire[l] = Tail(v) /\ \A m \in Links : m # l => k.wire[m] = c.wire[m]
  BY <1>1, <1>2 DEF Fields
<1>4. v \in Seq(FramesOf(l)) /\ v # <<>>
  BY <1>1 DEF Wired
<1> HIDE DEF v
<1>5. /\ Tail(v) \in Seq(FramesOf(l))
      /\ \A i \in DOMAIN Tail(v) : i + 1 \in DOMAIN v /\ Tail(v)[i] = v[i + 1]
  BY <1>4, HeadTailProperties
<1>6. Wired(k)
  <2> SUFFICES ASSUME NEW m \in Links PROVE k.wire[m] \in Seq(FramesOf(m)) /\ k.pending[m] \in Seq(TxnsOf(m))
    BY <1>2, <1>3 DEF Wired
  <2>1. CASE m = l
    BY <1>1, <1>3, <1>5, <2>1 DEF Wired
  <2>2. CASE m # l
    BY <1>1, <1>3, <2>2 DEF Wired
  <2> QED
    BY <2>1, <2>2
<1>7. NoApply(c) => NoApply(k)
  <2>1. CASE l = "drive"
    <3>1. k.wire["drive"] = Tail(v) /\ c.wire["drive"] = v
      BY <1>3, <2>1 DEF v
    <3> QED
      BY <1>5, <3>1 DEF NoApply
  <2>2. CASE l # "drive"
    BY <1>3, <2>2 DEF NoApply, Links
  <2> QED
    BY <2>1, <2>2
<1>8. Awaits(k) <=> Awaits(c)
  BY <1>3 DEF Awaits
<1>9. Frees(c, k)
  BY <1>3, <1>6, <1>7, <1>8 DEF Frees, Freed
<1> QED
  BY <1>6, <1>9 DEF k

\* The drive module applies the brake only where it did or the frame tells it to, and does
\* not once it has taken another brake frame.
LEMMA DriveTakesBrake ==
  ASSUME NEW b \in DriveBoards(Horizon), NEW f \in DriveFrames
  PROVE  LET d == DriveTakes(b, f)
             r == DriveAnswers(b, f, TRUE)
         IN  /\ d.at = b.at /\ r.at = b.at /\ r.cmd = f.cmd
             /\ d.brake = "apply" => b.brake = "apply" \/ f = ApplyFrame
             /\ r.cmd = "brake" /\ (r.ok \/ r.why = "AT_LIMIT") /\ f # ApplyFrame => d.brake # "apply"
<1> DEFINE d == DriveTakes(b, f)
           r == DriveAnswers(b, f, TRUE)
           cleared == IF f.cmd \in {"brake", "steer"} /\ f.arg = "stop" THEN [b EXCEPT !.tripped = FALSE] ELSE b
           fresh == [cleared EXCEPT !.quiet = 0]
           why == WhyNot(b, f)
<1>1. f = [cmd |-> f.cmd, arg |-> f.arg] /\ ApplyFrame = [cmd |-> "brake", arg |-> "apply"]
  BY DEF DriveFrames, Frame, ApplyFrame
<1>2. /\ fresh.brake = b.brake /\ fresh.at = b.at /\ "brake" \in DOMAIN fresh /\ "brake" \in DOMAIN b
      /\ "at" \in DOMAIN fresh /\ "at" \in DOMAIN b /\ "steer" \in DOMAIN fresh
  BY DEF DriveBoards
<1>3. d = CASE why = "WD_TRIPPED"                     -> b
            [] why \in {"STALL", "AT_LIMIT"}          -> SwitchBrake(b, "stop")
            [] why = "" /\ f.cmd = "brake"        -> SwitchBrake(fresh, f.arg)
            [] why = "" /\ f.cmd = "steer"        -> [fresh EXCEPT !.steer = f.arg]
            [] why = "" /\ f.cmd = "alive"        -> fresh
            [] OTHER                                  -> b
  BY DEF DriveTakes
<1>4. r.cmd = f.cmd /\ (r.ok <=> why = "") /\ r.why = why /\ r.at = b.at
  BY DEF DriveAnswers
<1>5. why \in {"", "WD_TRIPPED", "STALL", "AT_LIMIT"} /\ (why \in {"STALL", "AT_LIMIT"} => f.cmd = "brake")
  BY DEF WhyNot, BlockReason
<1> DEFINE s == [fresh EXCEPT !.steer = f.arg]
           off == SwitchBrake(b, "stop")
           on == SwitchBrake(fresh, f.arg)
<1>6. /\ off.brake = "stop" /\ off.at = b.at /\ on.brake = f.arg /\ on.at = b.at
      /\ s.brake = b.brake /\ s.at = b.at
  BY <1>2 DEF SwitchBrake
<1> HIDE DEF d, r, fresh, why, s, off, on
<1>7. CASE why = "WD_TRIPPED"
  <2>1. d = b
    BY <1>3, <1>7
  <2>2. ~(r.ok \/ r.why = "AT_LIMIT")
    BY <1>4, <1>7
  <2> QED
    BY <1>4, <2>1, <2>2 DEF d, r
<1>8. CASE why \in {"STALL", "AT_LIMIT"}
  <2>1. d = off
    BY <1>3, <1>8 DEF off
  <2> QED
    BY <1>4, <1>6, <2>1 DEF d, r
<1>9. CASE why = "" /\ f.cmd = "brake"
  <2>1. d = on
    BY <1>3, <1>9 DEF on
  <2>2. f.arg = "apply" <=> f = ApplyFrame
    <3>1. f = [cmd |-> "brake", arg |-> f.arg]
      BY <1>1, <1>9
    <3>2. f.arg = "apply" => f = ApplyFrame
      BY <1>1, <3>1
    <3> QED
      BY <1>1, <3>2
  <2>3. d.brake = f.arg /\ d.at = b.at
    BY <1>6, <2>1
  <2> QED
    BY <1>4, <1>9, <2>2, <2>3 DEF d, r
<1>10. CASE why = "" /\ f.cmd # "brake"
  <2>1. d \in {s, fresh, b}
    BY <1>3, <1>10 DEF s
  <2>2. d.at = b.at /\ d.brake = b.brake
    BY <1>2, <1>6, <2>1
  <2> QED
    BY <1>4, <1>10, <2>2 DEF d, r
<1> QED
  BY <1>5, <1>7, <1>8, <1>9, <1>10

LEMMA HeardTells ==
  ASSUME NEW k, Wired(k), NEW l \in Links, NEW r, NEW b, Freed(k, b), Grounded(k, l, r, b)
  PROVE  Told(k, Heard(k, l, r), l, r, b)
<1>1. Heard(k, l, r) \in {k, OnLine(k, l, r)}
  BY DEF Heard
<1>2. Told(k, k, l, r, b)
  BY FreesSelf, FreesTold
<1>3. Told(k, OnLine(k, l, r), l, r, b)
  BY OnLineTells
<1> QED
  BY <1>1, <1>2, <1>3

\* A reading that comes in with the brake still where it was read.
LEMMA SeenTold ==
  ASSUME NEW k, NEW d, NEW l, NEW r, NEW b, Told(k, d, l, r, b), NEW p, Seen(k, p),
         l = "drive" /\ r.cmd = "angles" => r.at = p
  PROVE  Seen(d, p)
<1>1. CASE d.at = k.at /\ d.readAge = k.readAge
  BY <1>1 DEF Seen
<1>2. CASE l = "drive" /\ r.cmd = "angles" /\ d.at = r.at /\ d.readAge = 0
  <2>1. d.at = p
    BY <1>2
  <2> QED
    BY <2>1 DEF Seen
<1> QED
  BY <1>1, <1>2 DEF Told

\* A line that the step brings, the controls being k with everything else it does.
LEMMA LineStarts ==
  ASSUME NEW k, Wired(k), NEW l \in Links, NEW r, k.duty \in {c.duty, "zero"},
         Freed(k, drive'.brake), Grounded(k, l, r, drive'.brake), Seen(k, drive'.at),
         l = "drive" /\ r.cmd = "angles" => r.at = drive'.at,
         c' = Heard(k, l, r)
  PROVE  StartInv' /\ StartOk
<1> DEFINE b == drive'.brake
<1>1. Told(k, c', l, r, b)
  BY HeardTells
<1>2. Seen(c', drive'.at)
  BY <1>1, SeenTold
<1>3. Freed(c', b) /\ c'.duty \in {c.duty, "zero"}
  BY <1>1 DEF Told
<1> QED
  BY <1>2, <1>3, StaysAtRest DEF StartInv

\* The drive module takes a frame: what the controls know of the brake is as true of the
\* module that took it, and so is what the answer will tell them.
LEMMA TakenFrees ==
  ASSUME RigInv, StartInv, c.wire["drive"] # <<>>
  PROVE  LET f == Head(c.wire["drive"])
             k == Untaken("drive")
             d == DriveTakes(drive, f)
             r == DriveAnswers(drive, f, TRUE)
         IN  /\ Wired(k) /\ k.duty \in {c.duty, "zero"} /\ Freed(k, d.brake) /\ Grounded(k, "drive", r, d.brake)
             /\ Seen(k, d.at) /\ r.at = d.at
<1> DEFINE f == Head(c.wire["drive"])
           k == Untaken("drive")
           d == DriveTakes(drive, f)
           r == DriveAnswers(drive, f, TRUE)
<1>1. Frees(c, k) /\ Wired(k)
  BY UntakenFrees DEF Links
<1>2. c.wire["drive"] \in Seq(DriveFrames) /\ c.wire["drive"] # <<>>
  BY WiredNow DEF Wired, Links, FramesOf
<1>3. f \in DriveFrames /\ 1 \in DOMAIN c.wire["drive"] /\ f = c.wire["drive"][1]
  BY <1>2, HeadTailProperties
<1>4. drive \in DriveBoards(Horizon)
  BY BoardTyped
<1> HIDE DEF f
<1>5. /\ d.at = drive.at /\ r.at = drive.at /\ r.cmd = f.cmd
      /\ d.brake = "apply" => drive.brake = "apply" \/ f = ApplyFrame
      /\ r.cmd = "brake" /\ (r.ok \/ r.why = "AT_LIMIT") /\ f # ApplyFrame => d.brake # "apply"
  BY <1>3, <1>4, DriveTakesBrake
<1> HIDE DEF k, d, r
<1>6. Freed(c, drive.brake) /\ Seen(c, drive.at)
  BY DEF StartInv
<1>7. Freed(k, drive.brake) /\ k.at = c.at /\ k.readAge = c.readAge /\ k.duty \in {c.duty, "zero"}
      /\ (c.applied = TRUE => k.applied = TRUE) /\ (Awaits(k) => Awaits(c))
  BY <1>1, <1>6 DEF Frees
<1>8. NoApply(c) => f # ApplyFrame
  BY <1>3 DEF NoApply
<1>9. Freed(k, d.brake)
  <2>1. CASE c.applied = TRUE
    BY <1>7, <2>1 DEF Freed
  <2>2. CASE c.applied # TRUE
    <3>1. drive.brake # "apply" /\ NoApply(c)
      BY <1>6, <2>2 DEF Freed
    <3>2. d.brake # "apply"
      BY <1>5, <1>8, <3>1
    <3> QED
      BY <1>7, <3>2 DEF Freed
  <2> QED
    BY <2>1, <2>2
<1>10. Grounded(k, "drive", r, d.brake)
  <2> SUFFICES ASSUME r.cmd = "brake", r.ok \/ r.why = "AT_LIMIT", Awaits(k) PROVE d.brake # "apply"
    BY DEF Grounded
  <2>1. NoApply(c)
    BY <1>6, <1>7 DEF Freed
  <2> QED
    BY <1>5, <1>8, <2>1
<1>11. Seen(k, d.at) /\ r.at = d.at
  BY <1>5, <1>6, <1>7 DEF Seen
<1> QED
  BY <1>1, <1>7, <1>9, <1>10, <1>11 DEF f, k, d, r

LEMMA TakingsStart ==
  ASSUME RigInv, StartInv, ThrottleBoardTakes \/ DriveBoardTakes \/ SignalFails \/ \E l \in Links : LineLost(l)
  PROVE  StartInv' /\ StartOk
<1>0. "accel" \in Links /\ "drive" \in Links /\ "accel" # "drive"
  BY DEF Links
<1>1. CASE ThrottleBoardTakes
  <2> DEFINE k == Untaken("accel")
             r == ThrottleAnswers(throttle, Head(c.wire["accel"]))
  <2>1. c.wire["accel"] # <<>> /\ c' = Heard(k, "accel", r) /\ drive' = drive
    BY <1>1 DEF ThrottleBoardTakes, Answer
  <2>2. Frees(c, k) /\ Wired(k)
    BY <1>0, <2>1, UntakenFrees
  <2> HIDE DEF k, r
  <2>3. Freed(k, drive'.brake) /\ Seen(k, drive'.at) /\ k.duty \in {c.duty, "zero"}
    BY <2>1, <2>2 DEF StartInv, Frees, Seen
  <2>4. Grounded(k, "accel", r, drive'.brake)
    BY <1>0 DEF Grounded
  <2> QED
    BY <1>0, <2>1, <2>2, <2>3, <2>4, LineStarts
<1>2. CASE DriveBoardTakes
  <2> DEFINE f == Head(c.wire["drive"])
             k == Untaken("drive")
             d == DriveTakes(drive, f)
             r == DriveAnswers(drive, f, TRUE)
  <2>1. c.wire["drive"] # <<>> /\ drive' = d /\ c' = Heard(k, "drive", r)
    BY <1>2 DEF DriveBoardTakes, Answer
  <2>2. /\ Wired(k) /\ k.duty \in {c.duty, "zero"} /\ Freed(k, d.brake) /\ Grounded(k, "drive", r, d.brake)
        /\ Seen(k, d.at) /\ r.at = d.at
    BY <2>1, TakenFrees
  <2> HIDE DEF k, d, r
  <2> QED
    BY <1>0, <2>1, <2>2, LineStarts
<1>3. CASE SignalFails
  <2> DEFINE k == Untaken("drive")
             r == DriveAnswers(drive, Head(c.wire["drive"]), FALSE)
  <2>1. /\ c.wire["drive"] # <<>> /\ Head(c.wire["drive"]).cmd = "angles" /\ c' = Heard(k, "drive", r)
        /\ drive' = drive
    BY <1>3 DEF SignalFails, Answer
  <2>2. Frees(c, k) /\ Wired(k)
    BY <1>0, <2>1, UntakenFrees
  <2>3. r.cmd # "brake" /\ r.at = drive'.at
    BY <2>1 DEF DriveAnswers
  <2> HIDE DEF k, r
  <2>4. Freed(k, drive'.brake) /\ Seen(k, drive'.at) /\ k.duty \in {c.duty, "zero"}
    BY <2>1, <2>2 DEF StartInv, Frees, Seen
  <2>5. Grounded(k, "drive", r, drive'.brake)
    BY <2>3 DEF Grounded
  <2> QED
    BY <1>0, <2>1, <2>2, <2>3, <2>4, <2>5, LineStarts
<1>4. ASSUME NEW l \in Links, LineLost(l) PROVE StartInv' /\ StartOk
  <2>1. CASE l = "accel"
    <3>1. c.wire[l] # <<>> /\ c' = Untaken(l) /\ drive' = drive
      BY <1>4, <2>1 DEF LineLost
    <3>2. Frees(c, c')
      BY <3>1, UntakenFrees
    <3> QED
      BY <3>1, <3>2, StepFrees
  <2>2. CASE l = "drive"
    <3> DEFINE k == Untaken("drive")
               d == DriveTakes(drive, Head(c.wire["drive"]))
    <3>1. c.wire["drive"] # <<>> /\ c' = k /\ drive' = d
      BY <1>0, <1>4, <2>2 DEF LineLost
    <3>2. k.duty \in {c.duty, "zero"} /\ Freed(k, d.brake) /\ Seen(k, d.at)
      BY <3>1, TakenFrees
    <3> HIDE DEF k, d
    <3> QED
      BY <3>1, <3>2, StaysAtRest DEF StartInv
  <2> QED
    BY <2>1, <2>2 DEF Links
<1> QED
  BY <1>1, <1>2, <1>3, <1>4

LEMMA MishapsStart ==
  ASSUME RigInv, StartInv, NEW l \in Links, ReaderEnds(l) \/ FrameLost(l) \/ PortBreaks(l)
  PROVE  StartInv' /\ StartOk
<1>0. Wired(c)
  BY WiredNow
<1>1. CASE ReaderEnds(l)
  <2>1. c' = LinkLost(c, l) /\ drive' = drive
    BY <1>1 DEF ReaderEnds
  <2>2. Frees(c, c')
    BY <1>0, <2>1, LinkLostFrees
  <2> QED
    BY <2>1, <2>2, StepFrees
<1>2. CASE FrameLost(l)
  <2>1. c.wire[l] # <<>> /\ c' = Untaken(l) /\ drive' = drive
    BY <1>2 DEF FrameLost
  <2>2. Frees(c, c')
    BY <2>1, UntakenFrees
  <2> QED
    BY <2>1, <2>2, StepFrees
<1>3. CASE PortBreaks(l)
  <2>1. Same(c, c', {"broken"}) /\ {"broken"} \cap Brake = {} /\ drive' = drive
    BY <1>0, <1>3 DEF PortBreaks, Same, Wired, Brake
  <2>2. Frees(c, c')
    BY <1>0, <2>1, OtherTouchFrees
  <2> QED
    BY <2>1, <2>2, StepFrees
<1> QED
  BY <1>1, <1>2, <1>3

\* A brake that stalls is switched off, and its line answers no frame: it says no.
LEMMA StallsStart ==
  ASSUME RigInv, StartInv, BrakeJams \/ BrakeStalls \/ TickThreadHangs
  PROVE  StartInv' /\ StartOk
<1>0. Wired(c) /\ Frees(c, c) /\ drive \in DriveBoards(Horizon)
  BY WiredNow, FreesSelf, BoardTyped
<1>1. CASE BrakeJams \/ TickThreadHangs
  <2>1. c' = c /\ drive'.brake = drive.brake /\ drive'.at = drive.at
    BY <1>0, <1>1 DEF BrakeJams, TickThreadHangs, DriveBoards
  <2> QED
    BY <1>0, <2>1, StepFrees
<1>2. CASE BrakeStalls
  <2> DEFINE r == Notice(drive, "brake", "STALL")
  <2>1. c' = Heard(c, "drive", r) /\ drive' = Stalled(drive)
    BY <1>2 DEF BrakeStalls, Answer
  <2>2. drive'.brake = "stop" /\ drive'.at = drive.at
    BY <1>0, <2>1 DEF Stalled, SwitchBrake, DriveBoards
  <2>3. r.cmd = "brake" /\ r.ok = FALSE /\ r.why = "STALL" /\ "drive" \in Links
    BY DEF Notice, Links
  <2> HIDE DEF r
  <2>4. Freed(c, drive'.brake) /\ Seen(c, drive'.at)
    BY <2>2 DEF StartInv, Freed, Seen
  <2>5. Grounded(c, "drive", r, drive'.brake)
    BY <2>2 DEF Grounded
  <2> QED
    BY <1>0, <2>1, <2>3, <2>4, <2>5, LineStarts
<1> QED
  BY <1>1, <1>2

\* In a unit of time the brake goes one place, and only what the relay drives it to.
LEMMA DriveAgedBrake ==
  ASSUME NEW b \in DriveBoards(Horizon)
  PROVE  LET d == DriveAged(b, Horizon)
         IN  d.brake \in {b.brake, "stop"} /\ (b.at = "released" => d.at # "applied")
<1> DEFINE there == IF b.at = "between" THEN End[b.brake]
                    ELSE IF b.at = End[b.brake] THEN b.at ELSE "between"
           n == [b EXCEPT !.at = there, !.stall = "none"]
           m == Moved(b)
           a == [m EXCEPT !.quiet = IF IsMoving(m) THEN Past(@, Silence) ELSE 0,
                          !.on = IF m.brake = "stop" THEN 0 ELSE Past(@, Horizon)]
           d == DriveAged(b, Horizon)
<1>1. d \in {a, AllOff(a)}
  BY DEF DriveAged
<1>2. m \in {b, n, SwitchBrake(n, "stop")}
  BY DEF Moved
<1>3. b.at = "released" => there # "applied"
  BY DEF DriveBoards
<1>4. n.at = there /\ n.brake = b.brake /\ DOMAIN n = DOMAIN b /\ "brake" \in DOMAIN b /\ "at" \in DOMAIN b
  BY DEF DriveBoards
<1> HIDE DEF there
<1> HIDE DEF n
<1>5. SwitchBrake(n, "stop").brake = "stop" /\ SwitchBrake(n, "stop").at = n.at /\ DOMAIN SwitchBrake(n, "stop") = DOMAIN b
  BY <1>4 DEF SwitchBrake, DriveBoards
<1>6. m.brake \in {b.brake, "stop"} /\ (b.at = "released" => m.at # "applied") /\ DOMAIN m = DOMAIN b
  BY <1>2, <1>3, <1>4, <1>5
<1> HIDE DEF m
<1>7. a.brake = m.brake /\ a.at = m.at /\ DOMAIN a = DOMAIN b
  BY <1>4, <1>6
<1> HIDE DEF a
<1>8. AllOff(a).brake = "stop" /\ AllOff(a).at = a.at
  BY <1>4, <1>7 DEF AllOff, SwitchBrake, DriveBoards
<1> QED
  BY <1>1, <1>6, <1>7, <1>8

\* A reading grows a unit of time older, and the brake goes a place further.
LEMMA ElapseStarts ==
  ASSUME RigInv, StartInv, MaxAge <= 1, Elapse
  PROVE  StartInv' /\ StartOk
<1> DEFINE k == ControlsAged(c)
           r == Notice(drive', "trip", "")
<1>0. Wired(c) /\ "drive" \in Links /\ Typed(c) /\ Sound(c) /\ drive \in DriveBoards(Horizon)
  BY WiredNow, ControlsRigged, BoardTyped DEF Links
<1>1. /\ drive' = DriveAged(drive, Horizon)
      /\ c' = Heard(k, "drive", r) \/ c' = k
  BY DEF Elapse, Answer
<1>2. drive'.brake \in {drive.brake, "stop"} /\ (drive.at = "released" => drive'.at # "applied")
  BY <1>0, <1>1, DriveAgedBrake
<1>3. k.wire = c.wire /\ Wired(k)
  <2>1. Typed(k) /\ k.wire = c.wire
    BY <1>0, ControlsAgedDoes
  <2> QED
    BY <2>1, TypedIsWired
<1>4. k.pending = [l \in Links |->
            [i \in DOMAIN c.pending[l] |-> [c.pending[l][i] EXCEPT !.age = Past(@, Reply)]]]
  BY <1>0 DEF ControlsAged, Wired, Fields
<1>5. k.at = c.at /\ k.readAge = Past(c.readAge, MaxAge) /\ k.duty = c.duty /\ k.applied = c.applied
  BY <1>0 DEF ControlsAged, Wired, Fields
<1> HIDE DEF k
<1>6. Awaits(k) => Awaits(c)
  <2> SUFFICES ASSUME NEW n \in DOMAIN k.pending["drive"], "release" \in k.pending["drive"][n].marks
               PROVE  Awaits(c)
    BY DEF Awaits
  <2>1. n \in DOMAIN c.pending["drive"] /\ k.pending["drive"][n] = [c.pending["drive"][n] EXCEPT !.age = Past(@, Reply)]
    BY <1>0, <1>4
  <2>2. k.pending["drive"][n].marks = c.pending["drive"][n].marks
    BY <2>1
  <2> QED
    BY <2>1, <2>2 DEF Awaits
<1>7. Freed(k, drive'.brake)
  <2>1. Freed(c, drive.brake)
    BY DEF StartInv
  <2> QED
    BY <1>2, <1>3, <1>5, <1>6, <2>1 DEF Freed, NoApply
<1>8. Seen(k, drive'.at)
  <2>1. c.readAge \in Nat /\ MaxAge \in Nat
    BY <1>0, TimesAssumption DEF Typed, Scalars
  <2>2. k.readAge # 0
    BY <1>5, <2>1 DEF Past
  <2>3. k.readAge <= MaxAge => c.readAge = 0
    BY <1>5, <2>1 DEF Past
  <2>4. c.at = "released" /\ c.readAge = 0 => drive.at = "released"
    BY DEF StartInv, Seen
  <2> QED
    BY <1>2, <1>5, <2>2, <2>3, <2>4 DEF Seen
<1>9. r.cmd = "trip"
  BY DEF Notice
<1> HIDE DEF r
<1>10. CASE c' = k
  <2>1. c'.duty \in {c.duty, "zero"} /\ Freed(c', drive'.brake) /\ Seen(c', drive'.at)
    BY <1>5, <1>7, <1>8, <1>10
  <2> QED
    BY <2>1, StaysAtRest DEF StartInv
<1>11. CASE c' = Heard(k, "drive", r)
  <2>1. Grounded(k, "drive", r, drive'.brake) /\ r.cmd # "angles"
    BY <1>9 DEF Grounded
  <2> QED
    BY <1>0, <1>3, <1>5, <1>7, <1>8, <1>11, <2>1, LineStarts
<1> QED
  BY <1>1, <1>10, <1>11

\* A step that keeps the invariant and the promise.
Starts == StartInv' /\ StartOk

LEMMA NextStarts ==
  ASSUME RigInv, AckInv, StartInv, "slow" \notin Mishaps, MaxAge <= 1, [Next]_vars
  PROVE  StartInv' /\ [StartOk]_vars
<1>1. Next => Starts
  <2> SUFFICES ASSUME Next PROVE Starts
    OBVIOUS
  <2>1. ASSUME NEW cmd \in Commands, Command(cmd) PROVE Starts
    BY <2>1, CommandStarts DEF Starts
  <2>2. ~CallGoesOn
    BY DEF CallGoesOn, AckInv
  <2>3. CASE EstopHeld \/ BridgeStops \/ Resume \/ HumanClears \/ TickRuns
    BY <2>3, CallsStart DEF Starts
  <2>4. ASSUME NEW l \in Links, Read(l) \/ ReaderEnds(l) \/ FrameLost(l) \/ LineLost(l) \/ PortBreaks(l)
        PROVE  Starts
    <3>1. ~Read(l)
      BY DEF Read, AckInv
    <3> QED
      BY <2>4, <3>1, MishapsStart, TakingsStart DEF Starts
  <2>5. CASE ThrottleBoardTakes \/ DriveBoardTakes \/ SignalFails
    BY <2>5, TakingsStart DEF Starts
  <2>6. CASE BrakeJams \/ BrakeStalls \/ TickThreadHangs
    BY <2>6, StallsStart DEF Starts
  <2>7. ~\E who \in Links \cup {"bridge"} : Slows(who)
    BY DEF Slows, Befalls
  <2>8. CASE Elapse
    BY <2>8, ElapseStarts DEF Starts
  <2> QED
    BY <2>1, <2>2, <2>3, <2>4, <2>5, <2>6, <2>7, <2>8 DEF Next
<1>2. CASE UNCHANGED vars
  <2>1. c' = c /\ drive' = drive
    BY <1>2 DEF vars
  <2>2. StartInv'
    BY <2>1 DEF StartInv, Freed, Seen, NoApply, Awaits
  <2> QED
    BY <1>2, <2>2
<1> QED
  BY <1>1, <1>2 DEF Starts

LEMMA InitStarts ==
  ASSUME Init
  PROVE  StartInv
<1> PICK place \in Places, g \in Gears : c = NewControls(place, g) /\ drive = NewDriveBoard(place)
  BY DEF Init
<1>1. /\ c.applied = TRUE /\ c.at = place /\ drive.at = place
      /\ \A l \in Links : c.wire[l] = <<>> /\ c.pending[l] = <<>>
  BY DEF NewControls, NewDriveBoard
<1>2. ~Awaits(c)
  BY <1>1 DEF Awaits, Links
<1>3. Freed(c, drive.brake)
  BY <1>1, <1>2 DEF Freed
<1>4. Seen(c, drive.at)
  BY <1>1 DEF Seen
<1> QED
  BY <1>3, <1>4 DEF StartInv

------------------------------------------------------------------------------
(* What the rig promises where nothing is slow.                               *)

\* Where nobody is slow, a stop reported as acknowledged is one: the throttle is at rest,
\* the steering is off, and nothing is on its way to change that; however many frames and
\* lines are lost, ports break, sensors fail, the brake jams and stalls, and with the tick
\* thread hung.
THEOREM SpecAckedStopIsOff ==
  ASSUME "slow" \notin Mishaps
  PROVE  Spec => []AckedStopIsOff
<1>1. Init => RigInv /\ AckInv
  BY InitIsSound, InitAcks
<1>2. RigInv /\ AckInv /\ [Next]_vars => (RigInv /\ AckInv)'
  <2> SUFFICES ASSUME RigInv, AckInv, [Next]_vars PROVE (RigInv /\ AckInv)'
    OBVIOUS
  <2> QED
    BY NextIsGood, NextAcks DEF Good
<1>3. RigInv /\ AckInv => AckedStopIsOff
  BY AckInvIsOff
<1> QED
  BY <1>1, <1>2, <1>3, PTL DEF Spec

\* Where nobody is slow and a reading that counts is at most a unit of time old, which the
\* brake takes to go from one place to the next, the throttle never leaves rest against a
\* brake that is being applied or has been: whatever is lost, breaks, fails, jams or hangs,
\* the release that the start waited for is the last thing the brake was told.
THEOREM SpecStartsReleased ==
  ASSUME "slow" \notin Mishaps, MaxAge <= 1
  PROVE  Spec => StartsReleased
<1>1. Init => RigInv /\ AckInv /\ StartInv
  BY InitIsSound, InitAcks, InitStarts
<1>2. RigInv /\ AckInv /\ StartInv /\ [Next]_vars =>
        /\ (RigInv /\ AckInv /\ StartInv)'
        /\ [c.duty = "zero" /\ c'.duty = "positive" =>
              /\ drive.brake # "apply" /\ drive.at # "applied"
              /\ \A i \in DOMAIN c.wire["drive"] : c.wire["drive"][i].arg # "apply"]_vars
  <2> SUFFICES ASSUME RigInv, AckInv, StartInv, [Next]_vars
               PROVE  (RigInv /\ AckInv /\ StartInv)' /\ [StartOk]_vars
    BY DEF StartOk
  <2>1. RigInv'
    BY NextIsGood DEF Good
  <2>2. AckInv'
    BY NextAcks
  <2>3. StartInv' /\ [StartOk]_vars
    BY NextStarts
  <2> QED
    BY <2>1, <2>2, <2>3
<1> QED
  BY <1>1, <1>2, PTL DEF Spec, StartsReleased

==============================================================================
