------------------------------ MODULE FetchBudget ------------------------------
(***************************************************************************)
(* The time one tick of an HTTP camera may take: the fetch (_grab), whose  *)
(* timeout requests applies to each socket operation, the deadline of      *)
(* read_snapshot, which is asked after each chunk of the body, and the one *)
(* retry (_retry_grab) with what is left of the tick.  The camera and the  *)
(* socket are external: an operation takes any time below its timeout.     *)
(***************************************************************************)
EXTENDS TickGrid

CONSTANTS
  FetchIntervals,   \* cadences of the camera, in seconds
  BaseTimeout, \* capture.timeout_seconds
  Second,      \* units of time in a second
  Delay,       \* RETRY_DELAY
  Guard,       \* RETRY_GUARD
  MinBudget,   \* RETRY_MIN_BUDGET
  SlowOps,     \* bound: operations of an attempt that take any time
  MaxFetchClock     \* bound: the tick is not followed further

ASSUME BudgetAssumption ==
  /\ FetchIntervals \subseteq Nat \ {0} /\ BaseTimeout \in Nat
  /\ Second \in Nat \ {0} /\ MinBudget \in Nat \ {0}
  /\ {Delay, Guard, SlowOps, MaxFetchClock} \subseteq Nat

VARIABLES
  fetchClock,    \* units since the tick was due
  fetchInterval, \* self.interval, in units
  fetchPc,       \* connect, headers, body, delay, over
  attempt,  \* 1, or 2 for the retry
  limit,    \* the timeout of this attempt
  stop,     \* its deadline, for read_snapshot
  waited,   \* how long the operation under way has taken
  slow,     \* operations of this attempt that took time
  began,    \* history: when this attempt's body began
  fine      \* self.consec_fail = 0, and retries are configured

fetchVars == <<fetchClock, fetchInterval, fetchPc, attempt, limit, stop, waited, slow, began, fine>>

Timeout == CameraTimeout(BaseTimeout * Second, fetchInterval, Second)
Operations == {"connect", "headers", "body"}

\* The tick was fired on time, or late in its own interval.
FetchInit ==
  /\ \E i \in FetchIntervals : fetchInterval = i * Second
  /\ fetchClock \in 0..(fetchInterval - 1)
  /\ fetchPc = "connect" /\ attempt = 1
  /\ limit = Timeout /\ stop = fetchClock + Timeout
  /\ waited = 0 /\ slow = 0 /\ began = 0
  /\ fine \in BOOLEAN

\* The operation under way takes its time, below its timeout.
Stall ==
  /\ fetchPc \in Operations /\ fetchClock < MaxFetchClock
  /\ waited < limit
  /\ waited > 0 \/ slow < SlowOps
  /\ fetchClock' = fetchClock + 1 /\ waited' = waited + 1
  /\ slow' = IF waited = 0 THEN slow + 1 ELSE slow
  /\ UNCHANGED <<fetchInterval, fetchPc, attempt, limit, stop, began, fine>>

\* Connected, or the headers are in: the next operation starts.
Proceed ==
  /\ \/ fetchPc = "connect" /\ fetchPc' = "headers"
     \/ fetchPc = "headers" /\ fetchPc' = "body"
  /\ waited' = 0 /\ began' = fetchClock
  /\ UNCHANGED <<fetchClock, fetchInterval, attempt, limit, stop, slow, fine>>

\* Bytes arrive, fewer than a chunk: the read goes on with a fresh timeout.
Piece ==
  /\ fetchPc = "body" /\ waited > 0
  /\ waited' = 0
  /\ UNCHANGED <<fetchClock, fetchInterval, fetchPc, attempt, limit, stop, slow, began, fine>>

\* read_snapshot's question after each chunk.
PastDeadline == fetchClock > stop

\* A chunk of the body is complete and not the last.
Chunk ==
  /\ fetchPc = "body" /\ ~PastDeadline
  /\ waited' = 0
  /\ UNCHANGED <<fetchClock, fetchInterval, fetchPc, attempt, limit, stop, slow, began, fine>>

\* The body ends before its deadline, and the frame is written.
FetchSucceeds ==
  /\ fetchPc = "body" /\ ~PastDeadline
  /\ fetchPc' = "over"
  /\ UNCHANGED <<fetchClock, fetchInterval, attempt, limit, stop, waited, slow, began, fine>>

RetryBudget == RetryTimeout(fetchInterval, fetchClock, Timeout, Delay, Guard, MinBudget)

\* The camera refuses, an operation times out, or a chunk came too late: a
\* retry if it is the first attempt of a camera that was fine and fits the tick.
Fail ==
  /\ fetchPc \in Operations
  /\ fetchPc' = IF attempt = 1 /\ fine /\ RetryBudget > 0 THEN "delay" ELSE "over"
  /\ limit' = IF fetchPc' = "delay" THEN RetryBudget ELSE limit
  /\ waited' = 0
  /\ UNCHANGED <<fetchClock, fetchInterval, attempt, stop, slow, began, fine>>

\* STOP.wait(RETRY_DELAY), then the second attempt.
Retry ==
  /\ fetchPc = "delay"
  /\ fetchClock' = fetchClock + Delay
  /\ fetchPc' = "connect" /\ attempt' = 2
  /\ stop' = fetchClock' + limit
  /\ slow' = 0
  /\ UNCHANGED <<fetchInterval, limit, waited, began, fine>>

FetchNext == Stall \/ Proceed \/ Piece \/ Chunk \/ FetchSucceeds \/ Fail \/ Retry

FetchSpec == FetchInit /\ [][FetchNext]_fetchVars

-------------------------------------------------------------------------------
(* Properties.                                                             *)

\* The type invariant; an attempt has a positive timeout and no operation
\* takes longer.
FetchTypeOK ==
  /\ fetchClock \in 0..(MaxFetchClock + Delay) /\ fetchInterval \in {i * Second : i \in FetchIntervals}
  /\ fetchPc \in Operations \cup {"delay", "over"}
  /\ attempt \in {1, 2} /\ limit \in 1..Timeout /\ stop \in Nat
  /\ waited \in 0..limit /\ slow \in 0..SlowOps /\ began \in 0..fetchClock
  /\ fine \in BOOLEAN

\* What the docstring of _retry_timeout promises, "a retry can never cost the next
\* frame as well", is so while one operation of the second attempt is slow: it is
\* over by the guard before the next tick.  Requests applies the timeout to each
\* operation, so each further slow one may cost the next frame a timeout more.
RetryCost ==
  attempt = 2 /\ fetchPc # "delay" =>
    fetchClock <= fetchInterval - Guard + GreaterOf(slow - 1, 0) * limit

\* A body that dribbles is given up: at most one more read, of one timeout, goes
\* on past the deadline (read_snapshot).
GivenUpAtDeadline == fetchPc = "body" => fetchClock <= GreaterOf(stop, began) + limit
===============================================================================
