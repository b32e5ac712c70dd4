---------------------------- MODULE ThrottleBoard ----------------------------
(***************************************************************************)
(* The throttle board of ugv-01 on firmware AC 1.4 (throttle_logic.h): it  *)
(* holds a duty, and rests it after a silence that only a duty frame or    *)
(* the keepalive breaks.  A record and the operators on it; the program's  *)
(* frames reach it through Ugv01Rig.  A duty is "zero" or "positive".      *)
(***************************************************************************)
EXTENDS Integers

CONSTANT Silence   \* TIMEOUT_MS, which the drive module's WD_TIMEOUT_MS equals

ASSUME SilenceAssumption == Silence \in Nat

Duties == {"zero", "positive"}

\* Variant: an age has no bound.
EverOlder(age, limit) == age + 1

\* An age, counted no further than just past its limit.
Past(age, limit) == IF age > limit THEN age ELSE age + 1

(***************************************************************************)
(* duty      duty_                                                         *)
(* quiet     age of lastValidMs_, while the duty is positive                *)
(* timedOut  timedOut_                                                     *)
(* timeouts  timeouts_                                                     *)
(***************************************************************************)
ThrottleBoards == [duty : Duties, quiet : 0 .. Silence + 1, timedOut : BOOLEAN, timeouts : Nat]

NewThrottleBoard == [duty |-> "zero", quiet |-> 0, timedOut |-> FALSE, timeouts |-> 0]

\* tick(): the duty goes to rest and stays latched there.
RestOnSilence(b) ==
    IF b.duty = "positive" /\ b.quiet > Silence
    THEN [b EXCEPT !.duty = "zero", !.timedOut = TRUE, !.timeouts = @ + 1]
    ELSE b

\* handleLine(): the duty frame and the keepalive refresh, the read-back does not.
Refreshes(b, frame) == frame.cmd \in {"duty", "alive"}

\* A positive duty while the latch holds.
RefusesDuty(b, frame) == b.timedOut /\ frame.arg = "positive"

ThrottleTakes(b, frame) ==
    LET r == IF Refreshes(b, frame) THEN [b EXCEPT !.quiet = 0] ELSE b
    IN  IF frame.cmd = "duty" /\ ~RefusesDuty(b, frame)
        THEN [r EXCEPT !.duty = frame.arg,
                       !.timedOut = IF frame.arg = "zero" THEN FALSE ELSE @]
        ELSE r

\* The line it answers, with the board as the frame left it.
ThrottleAnswers(b, frame) ==
    [cmd |-> frame.cmd,
     ok  |-> ~(frame.cmd = "duty" /\ RefusesDuty(b, frame)),
     why |-> IF frame.cmd = "duty" /\ RefusesDuty(b, frame) THEN "TIMEOUT" ELSE "",
     duty |-> ThrottleTakes(b, frame).duty,
     count |-> b.timeouts, at |-> "none"]

\* A unit of time; the firmware's loop looks at the clock all the while.
ThrottleAged(b) ==
    RestOnSilence([b EXCEPT !.quiet = IF b.duty = "zero" THEN 0 ELSE Past(@, Silence)])

==============================================================================
