------------------------------- MODULE TickGrid -------------------------------
(***************************************************************************)
(* The arithmetic of the capture tick loop (scripts/timelapse_capture.py): *)
(* the grid a camera's frames are named on, what the loop does about a     *)
(* tick that is due, early or long gone, and the time budget of a fetch    *)
(* and of its one retry.  Times are integers in one unit (the code's       *)
(* floats, scaled); an interval is a positive number of units.             *)
(***************************************************************************)
EXTENDS Integers

\* The first grid point strictly after `after`.
NextSlot(after, interval) == ((after \div interval) + 1) * interval

\* The grid point at or after `now`; -(-n \div i) is the ceiling of n / i.
NextBoundary(now, interval) == (-((-now) \div interval)) * interval

OnGrid(t, interval) == t % interval = 0

\* What the tick loop does with a tick due at `next` when the clock says `now`.
\* More than one interval away, either way, is a tick it does not honour.
TickPlan(next, now, interval) ==
  LET ahead == next - now
  IN  IF ahead > interval \/ ahead < -interval THEN "resync"
      ELSE IF ahead > 0 THEN "wait"
      ELSE "fire"

LesserOf(a, b)  == IF a <= b THEN a ELSE b
GreaterOf(a, b) == IF a >= b THEN a ELSE b

\* camera_timeout: the global timeout, kept under the camera's own interval
\* and at least `one` second.
CameraTimeout(base, interval, one) ==
  GreaterOf(one, LesserOf(base, interval - one))

\* A slip: neither the delay nor the guard taken off the tick.
RetryTimeoutUnguarded(deadline, now, timeout, delay, guard, minBudget) ==
  LET budget == deadline - now
  IN  IF budget < minBudget THEN 0 ELSE LesserOf(timeout, budget)

\* _retry_timeout: what is left of the tick once the retry's delay and the
\* guard before the next tick are taken off; 0 when it is not worth a fetch.
RetryTimeout(deadline, now, timeout, delay, guard, minBudget) ==
  LET budget == (deadline - guard) - (now + delay)
  IN  IF budget < minBudget THEN 0 ELSE LesserOf(timeout, budget)
===============================================================================
