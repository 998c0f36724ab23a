------------------------------ MODULE DaemonProofs ----------------------------
(***************************************************************************)
(* What runs beside the HTTP cameras: the reserve of the disk guard, for   *)
(* every disk, threshold and rate of writing; the time the retry of a      *)
(* fetch may take; what the watches say of silent cameras; and what the    *)
(* grabber of an RTSP camera files under a day.  ReserveInv is inductive   *)
(* with the types: a running capture has written at most MaxWritten a unit *)
(* since a reading that found MinFree.  SpendingInv: the retry gets what   *)
(* the first attempt left.  AskedInv and OnRecord: what a watch goes by is *)
(* the camera's, and what it said is written down.  OneCadence and         *)
(* OverrunInv: a launch has its day's cadence and an end near its day's.   *)
(***************************************************************************)
EXTENDS RtspGrabber, DiskGuard, FetchBudget, Watches, TLAPS

-------------------------------------------------------------------------------
(* The guard.                                                              *)

LEMMA TypeCorrectStep == GuardTypeOK /\ [GuardNext]_guardVars => GuardTypeOK'
<1> SUFFICES ASSUME GuardTypeOK, [GuardNext]_guardVars PROVE GuardTypeOK'
  OBVIOUS
<1>1. CASE Capture
  <2>1. free' \in 0..Capacity
    BY <1>1, GuardAssumption DEF GuardTypeOK, Capture
  <2>2. wait' \in 0..CheckEvery
    BY <1>1, GuardAssumption DEF GuardTypeOK, Capture
  <2> QED
    BY <2>1, <2>2, <1>1 DEF GuardTypeOK, Capture
<1>2. CASE MakeRoom
  <2>1. free' \in 0..Capacity
    BY <1>2, GuardAssumption DEF GuardTypeOK, MakeRoom
  <2> QED
    BY <2>1, <1>2 DEF GuardTypeOK, MakeRoom
<1>3. CASE Check
  <2>1. wait' \in 0..CheckEvery /\ failures' \in 0..MaxFailures
    BY <1>3, GuardAssumption DEF Check, Reading
  <2>2. free' \in 0..Capacity /\ held' \in 0..Capacity
    BY <1>3 DEF GuardTypeOK, Check, Reading
  <2>3. guardPaused' \in BOOLEAN
    <3>1. guardPaused' = (~Resumes) \/ guardPaused' = (free < MinFree)
      BY <1>3, Zenon DEF Check
    <3>2. (~Resumes) \in BOOLEAN /\ (free < MinFree) \in BOOLEAN
      BY DEF Resumes
    <3> QED
      BY <3>1, <3>2, Zenon
  <2>4. healthy' \in BOOLEAN
    BY <1>3 DEF Check, Reading
  <2>5. guardPaused' => held' < MinFree'
    <3> SUFFICES ASSUME guardPaused' PROVE held' < MinFree
      BY DEF MinFree
    <3>1. CASE guardPaused
      BY <3>1, <1>3 DEF GuardTypeOK, Check, Reading
    <3>2. CASE ~guardPaused
      <4>1. free < MinFree
        BY <3>2, <1>3 DEF Check
      <4>2. held' = free
        BY <3>2, <1>3 DEF Check, Reading
      <4> QED
        BY <4>1, <4>2
    <3> QED
      BY <3>1, <3>2
  <2> QED
    BY <2>1, <2>2, <2>3, <2>4, <2>5 DEF GuardTypeOK
<1>4. CASE CheckFails
  <2>1. wait' \in 0..CheckEvery /\ failures' \in 0..MaxFailures
    BY <1>4, GuardAssumption DEF GuardTypeOK, CheckFails
  <2> QED
    BY <2>1, <1>4 DEF GuardTypeOK, CheckFails
<1>5. CASE UNCHANGED guardVars
  BY <1>5 DEF GuardTypeOK, guardVars
<1> QED
  BY <1>1, <1>2, <1>3, <1>4, <1>5 DEF GuardNext

\* The guard's state keeps its types.
THEOREM TypeCorrect == GuardSpec => []GuardTypeOK
<1>1. GuardInit => GuardTypeOK
  <2> SUFFICES ASSUME GuardInit PROVE GuardTypeOK
    OBVIOUS
  <2>1. free \in 0..Capacity /\ held \in 0..Capacity
    BY GuardAssumption DEF GuardInit
  <2>2. wait \in 0..CheckEvery /\ failures \in 0..MaxFailures
    BY GuardAssumption DEF GuardInit
  <2> QED
    BY <2>1, <2>2 DEF GuardInit, GuardTypeOK
<1> QED
  BY <1>1, TypeCorrectStep, PTL DEF GuardSpec

\* Capture resumes only after more than a tenth of the threshold was freed since the
\* reading that paused it, however the readings fail in between.
THEOREM GuardDoesNotFlap == GuardSpec => NoFlapping
<1>1. GuardTypeOK /\ [GuardNext]_guardVars =>
        [guardPaused /\ ~guardPaused' => free' - held > Tenth]_guardVars
  <2> SUFFICES ASSUME GuardTypeOK, [GuardNext]_guardVars, guardPaused, ~guardPaused'
               PROVE  free' - held > Tenth
    OBVIOUS
  <2>1. Check
    BY DEF GuardNext, Capture, MakeRoom, CheckFails, guardVars
  <2>2. free' = free /\ free >= ResumeAt
    BY <2>1 DEF Check, Reading, Resumes
  <2>3. held < MinFree /\ free \in Int /\ held \in Int /\ Tenth \in Int
    BY GuardAssumption DEF GuardTypeOK
  <2> QED
    BY <2>2, <2>3 DEF MinFree, ResumeAt
<1> QED
  BY <1>1, TypeCorrect, PTL DEF GuardSpec, NoFlapping

\* A longer time writes no less.
LEMMA MoreTimeMoreWritten ==
  ASSUME NEW w \in Nat, NEW a \in Int, NEW b \in Int, a <= b
  PROVE  w * a <= w * b
<1>1. b - a \in Nat
  OBVIOUS
<1>2. w * (b - a) >= 0
  BY <1>1
<1>3. w * b = w * a + w * (b - a)
  BY <1>1
<1>4. w * a \in Int /\ w * b \in Int /\ w * (b - a) \in Int
  BY <1>1
<1> QED
  BY <1>2, <1>3, <1>4

\* Readings fail at most MaxFailures times in a row.
LEMMA SinceIsBounded ==
  ASSUME GuardTypeOK
  PROVE  /\ ReadingsBefore \in Int /\ ReadingsBefore >= 0
         /\ ReadingsBefore <= CheckEvery * (MaxFailures + 1)
<1>1. CheckEvery \in Nat /\ failures \in Nat /\ failures <= MaxFailures
      /\ wait \in Nat /\ wait <= CheckEvery /\ MaxFailures \in Nat
  BY GuardAssumption DEF GuardTypeOK
<1>2. CheckEvery * failures <= CheckEvery * MaxFailures
  BY <1>1, MoreTimeMoreWritten
<1>3. /\ failures * CheckEvery = CheckEvery * failures
      /\ CheckEvery * (MaxFailures + 1) = CheckEvery * MaxFailures + CheckEvery
      /\ CheckEvery * failures \in Nat /\ CheckEvery * MaxFailures \in Nat
  BY <1>1
<1> QED
  BY <1>1, <1>2, <1>3 DEF ReadingsBefore

LEMMA ReserveStep == GuardTypeOK /\ GuardTypeOK' /\ ReserveInv /\ [GuardNext]_guardVars => ReserveInv'
<1> SUFFICES ASSUME GuardTypeOK, GuardTypeOK', ReserveInv, [GuardNext]_guardVars PROVE ReserveInv'
  OBVIOUS
<1> DEFINE most == MaxWritten * CheckEvery * (MaxFailures + 1)
           wrote == MaxWritten * ReadingsBefore
<1>1. /\ MaxWritten \in Nat /\ CheckEvery \in Nat \ {0} /\ MaxFailures \in Nat
      /\ MinFree \in Nat /\ free \in Nat /\ wait \in Nat /\ failures \in Nat
  BY GuardAssumption DEF GuardTypeOK, MinFree
<1>2. wrote \in Nat /\ most \in Nat /\ wrote <= most
  <2>1. ReadingsBefore \in Int /\ ReadingsBefore >= 0 /\ ReadingsBefore <= CheckEvery * (MaxFailures + 1)
    BY SinceIsBounded
  <2>2. CheckEvery * (MaxFailures + 1) \in Int
    BY <1>1
  <2>3. MaxWritten * ReadingsBefore <= MaxWritten * (CheckEvery * (MaxFailures + 1))
    BY <2>1, <2>2, <1>1, MoreTimeMoreWritten
  <2>4. MaxWritten * (CheckEvery * (MaxFailures + 1)) = most
    BY <1>1
  <2>5. wrote \in Nat
    BY <2>1, <1>1
  <2>6. most \in Nat
    BY <1>1
  <2> QED
    BY <2>3, <2>4, <2>5, <2>6
<1>3. CASE Capture
  <2>1. PICK w \in 0..MaxWritten :
          free' = IF guardPaused THEN free ELSE IF w < free THEN free - w ELSE 0
    BY <1>3 DEF Capture
  <2>2. CASE guardPaused
    BY <2>1, <2>2, <1>3 DEF Capture, ReserveInv
  <2>3. CASE ~guardPaused
    <3>1. ReadingsBefore' = ReadingsBefore + 1
      <4>1. wait' = wait - 1 /\ failures' = failures /\ failures * CheckEvery \in Int
        BY <1>3, <1>1 DEF Capture
      <4> DEFINE f == failures * CheckEvery
      <4>2. ReadingsBefore' = f + (CheckEvery - (wait - 1)) /\ ReadingsBefore = f + (CheckEvery - wait)
        BY <4>1 DEF ReadingsBefore
      <4>3. f \in Int
        BY <4>1
      <4> HIDE DEF f
      <4> QED
        BY <4>2, <4>3, <1>1
    <3>2. MaxWritten * ReadingsBefore' = wrote + MaxWritten
      <4>1. ReadingsBefore \in Int
        BY SinceIsBounded
      <4>2. MaxWritten * (ReadingsBefore + 1) = MaxWritten * ReadingsBefore + MaxWritten
        BY <4>1, <1>1
      <4> HIDE DEF ReadingsBefore
      <4> QED
        BY <4>2, <3>1
    <3>3. free' \in Nat /\ free' + w >= free /\ w <= MaxWritten /\ w \in Nat
      BY <2>1, <2>3, <1>1
    <3>4. healthy => free + wrote >= MinFree
      BY <2>3 DEF ReserveInv
    <3>5. PICK f \in Nat : f = free'
      BY <3>3
    <3>6. healthy => f + (wrote + MaxWritten) >= MinFree
      <4>1. f + w >= free /\ w <= MaxWritten /\ w \in Nat
        BY <3>3, <3>5
      <4> HIDE DEF wrote
      <4> QED
        BY <4>1, <3>4, <1>1, <1>2
    <3>7. guardPaused' = guardPaused /\ healthy' = healthy
      BY <1>3 DEF Capture
    <3> QED
      BY <3>2, <3>5, <3>6, <3>7, <2>3 DEF ReserveInv
  <2> QED
    BY <2>2, <2>3
<1>4. CASE MakeRoom
  <2>1. PICK f \in (free + 1)..Capacity : f = free'
    BY <1>4 DEF MakeRoom
  <2>2. f \in Nat /\ f >= free
    BY <2>1, <1>1, GuardAssumption
  <2>3. ReadingsBefore' = ReadingsBefore /\ guardPaused' = guardPaused /\ healthy' = healthy
    BY <1>4 DEF MakeRoom, ReadingsBefore
  <2>4. healthy /\ ~guardPaused => f + wrote >= MinFree
    <3>1. healthy /\ ~guardPaused => free + wrote >= MinFree
      BY DEF ReserveInv
    <3> HIDE DEF wrote
    <3> QED
      BY <3>1, <2>2, <1>1, <1>2
  <2>5. healthy /\ guardPaused => f + most >= MinFree
    <3>1. healthy /\ guardPaused => free + most >= MinFree
      BY DEF ReserveInv
    <3> HIDE DEF most
    <3> QED
      BY <3>1, <2>2, <1>1, <1>2
  <2> QED
    BY <2>1, <2>3, <2>4, <2>5 DEF ReserveInv
<1>5. CASE Check
  <2>1. wait' = CheckEvery /\ failures' = 0 /\ free' = free
    BY <1>5 DEF Check, Reading
  <2>2. ReadingsBefore' = 0 * CheckEvery + (CheckEvery - CheckEvery)
    BY <2>1 DEF ReadingsBefore
  <2>3. 0 * CheckEvery + (CheckEvery - CheckEvery) = 0
    BY <1>1
  <2>4. MaxWritten * ReadingsBefore' = 0
    BY <2>2, <2>3, <1>1
  <2>5. healthy' /\ ~guardPaused' => free >= MinFree
    <3>1. CASE guardPaused
      <4>1. ~guardPaused' => free >= 11 * Tenth
        BY <3>1, <1>5 DEF Check, Resumes, ResumeAt
      <4> QED
        BY <4>1, <1>1, GuardAssumption DEF MinFree
    <3>2. CASE ~guardPaused
      <4>1. ~guardPaused' => ~(free < MinFree)
        BY <3>2, <1>5, Zenon DEF Check
      <4> QED
        BY <4>1, <1>1
    <3> QED
      BY <3>1, <3>2
  <2>6. healthy' /\ guardPaused' => free + most >= MinFree
    <3>1. CASE healthy /\ guardPaused
      BY <3>1 DEF ReserveInv
    <3>2. CASE healthy /\ ~guardPaused
      <4>1. free + wrote >= MinFree
        BY <3>2 DEF ReserveInv
      <4> HIDE DEF wrote, most
      <4> QED
        BY <4>1, <1>1, <1>2
    <3>3. CASE ~healthy
      <4>1. healthy' => free >= MinFree
        BY <3>3, <1>5 DEF Check, Reading
      <4> HIDE DEF most
      <4> QED
        BY <4>1, <1>1, <1>2
    <3> QED
      BY <3>1, <3>2, <3>3
  <2>7. free + 0 = free
    BY <1>1
  <2> QED
    BY <2>1, <2>4, <2>5, <2>6, <2>7 DEF ReserveInv
<1>6. CASE CheckFails
  <2>1. /\ wait = 0 /\ wait' = CheckEvery /\ failures' = failures + 1
        /\ free' = free /\ guardPaused' = guardPaused /\ healthy' = healthy
    BY <1>6 DEF CheckFails
  <2>2. ReadingsBefore' = (failures + 1) * CheckEvery + (CheckEvery - CheckEvery)
        /\ ReadingsBefore = failures * CheckEvery + (CheckEvery - 0)
    BY <2>1 DEF ReadingsBefore
  <2>3. (failures + 1) * CheckEvery + (CheckEvery - CheckEvery)
          = failures * CheckEvery + (CheckEvery - 0)
    BY <1>1
  <2>4. ReadingsBefore' = ReadingsBefore
    BY <2>2, <2>3
  <2> QED
    BY <2>1, <2>4 DEF ReserveInv
<1>7. CASE UNCHANGED guardVars
  BY <1>7 DEF ReserveInv, ReadingsBefore, guardVars
<1> QED
  BY <1>3, <1>4, <1>5, <1>6, <1>7 DEF GuardNext

\* Once a reading found the threshold free, capture leaves all of it but what
\* it writes between two readings that succeed.
THEOREM ReserveIsKept == GuardSpec => []ReserveKept
<1>1. GuardInit => ReserveInv
  BY DEF GuardInit, ReserveInv
<1>2. GuardTypeOK /\ ReserveInv => ReserveKept
  <2> SUFFICES ASSUME GuardTypeOK, ReserveInv, healthy
               PROVE  free + MaxWritten * CheckEvery * (MaxFailures + 1) >= MinFree
    BY DEF ReserveKept
  <2>1. /\ MaxWritten \in Nat /\ CheckEvery \in Nat /\ MaxFailures \in Nat
        /\ free \in Nat /\ MinFree \in Nat
    BY GuardAssumption DEF GuardTypeOK, MinFree
  <2>2. CASE guardPaused
    BY <2>2 DEF ReserveInv
  <2>3. CASE ~guardPaused
    <3> DEFINE e == CheckEvery * (MaxFailures + 1)
    <3>1. ReadingsBefore \in Int /\ ReadingsBefore <= e /\ e \in Int
      BY SinceIsBounded, <2>1
    <3>2. MaxWritten * ReadingsBefore <= MaxWritten * e
      <4> HIDE DEF e
      <4> QED
        BY <3>1, <2>1, MoreTimeMoreWritten
    <3>3. MaxWritten * e = MaxWritten * CheckEvery * (MaxFailures + 1)
      BY <2>1
    <3>4. MaxWritten * ReadingsBefore \in Int /\ MaxWritten * e \in Int
      BY <3>1, <2>1
    <3>5. free + MaxWritten * ReadingsBefore >= MinFree
      BY <2>3 DEF ReserveInv
    <3>6. free + MaxWritten * e >= MinFree
      <4> DEFINE p == MaxWritten * ReadingsBefore
                 q == MaxWritten * e
      <4>1. p <= q /\ p \in Int /\ q \in Int /\ free + p >= MinFree
        BY <3>2, <3>4, <3>5
      <4> HIDE DEF p, q
      <4>2. free + q >= MinFree
        BY <4>1, <2>1
      <4> QED
        BY <4>2 DEF q
    <3> QED
      BY <3>3, <3>6
  <2> QED
    BY <2>2, <2>3
<1> QED
  BY <1>1, <1>2, TypeCorrect, ReserveStep, PTL DEF GuardSpec

-------------------------------------------------------------------------------
(* The fetch and its retry.                                                *)

\* camera_timeout keeps a fetch under the camera's own interval, whatever the
\* global timeout, as soon as the interval is more than one second.
THEOREM TimeoutUnderInterval ==
  ASSUME NEW base \in Int, NEW one \in Nat \ {0}, NEW every \in Nat,
         every > one
  PROVE  /\ CameraTimeout(base, every, one) >= one
         /\ CameraTimeout(base, every, one) < every
  BY DEF CameraTimeout, GreaterOf, LesserOf

\* A retry is declined or ends, delay and timeout included, a guard before the
\* next tick; that is the whole of _retry_timeout's arithmetic.
THEOREM RetryFitsItsBudget ==
  ASSUME NEW deadline \in Int, NEW now \in Int, NEW timeout \in Nat \ {0},
         NEW delay \in Nat, NEW guard \in Nat, NEW minBudget \in Nat \ {0}
  PROVE  LET t == RetryTimeout(deadline, now, timeout, delay, guard, minBudget)
         IN  t # 0 => t > 0 /\ now + delay + t <= deadline - guard
  BY DEF RetryTimeout, LesserOf

\* An attempt takes no more than a timeout for each slow operation, and the second
\* is given what the first has left of the tick, delay and guard taken off.
SpendingInv ==
  /\ fetchClock \in Nat /\ fetchInterval \in Nat /\ limit \in Nat /\ waited \in Nat /\ slow \in Nat
  /\ stop \in Int /\ attempt \in {1, 2}
  /\ waited <= limit
  /\ fetchPc = "delay" => fetchClock + Delay + limit <= fetchInterval - Guard
  /\ attempt = 2 /\ fetchPc # "delay" =>
       /\ stop <= fetchInterval - Guard
       /\ fetchClock <= (stop - limit) + slow * limit
       /\ waited > 0 => fetchClock <= (stop - limit) + (slow - 1) * limit + waited
  /\ fetchPc = "delay" => attempt = 1 /\ waited = 0

LEMMA TimeoutIsPositive == ASSUME fetchInterval \in Nat PROVE Timeout \in Nat \ {0}
BY BudgetAssumption DEF Timeout, CameraTimeout, GreaterOf, LesserOf

LEMMA SpendingStarts == FetchInit => SpendingInv
<1> SUFFICES ASSUME FetchInit PROVE SpendingInv
  OBVIOUS
<1>1. fetchInterval \in Nat
  <2>1. \A i \in FetchIntervals : i * Second \in Nat
    BY BudgetAssumption
  <2> QED
    BY <2>1 DEF FetchInit
<1>2. Timeout \in Nat
  BY <1>1, TimeoutIsPositive
<1> QED
  BY <1>1, <1>2 DEF FetchInit, SpendingInv

LEMMA SpendingStep ==
  SpendingInv /\ [FetchNext]_fetchVars => SpendingInv'
<1> SUFFICES ASSUME SpendingInv, [FetchNext]_fetchVars PROVE SpendingInv'
  OBVIOUS
<1> USE BudgetAssumption
<1>1. CASE Stall
  BY <1>1 DEF Stall, SpendingInv, Operations
<1>2. CASE Proceed
  BY <1>2 DEF Proceed, SpendingInv
<1>3. CASE Piece \/ Chunk
  BY <1>3 DEF Piece, Chunk, SpendingInv
<1>4. CASE FetchSucceeds
  BY <1>4 DEF FetchSucceeds, SpendingInv
<1>5. CASE Fail
  <2>1. RetryBudget # 0 =>
          RetryBudget \in Nat /\ fetchClock + Delay + RetryBudget <= fetchInterval - Guard
    BY TimeoutIsPositive, RetryFitsItsBudget DEF SpendingInv, RetryBudget, RetryTimeout, LesserOf
  <2>2. CASE attempt = 1 /\ fine /\ RetryBudget > 0
    BY <1>5, <2>1, <2>2 DEF Fail, SpendingInv
  <2>3. CASE ~(attempt = 1 /\ fine /\ RetryBudget > 0)
    BY <1>5, <2>3 DEF Fail, SpendingInv, Operations
  <2> QED
    BY <2>2, <2>3
<1>6. CASE Retry
  BY <1>6 DEF Retry, SpendingInv
<1>7. CASE UNCHANGED fetchVars
  BY <1>7 DEF fetchVars, SpendingInv
<1> QED
  BY <1>1, <1>2, <1>3, <1>4, <1>5, <1>6, <1>7 DEF FetchNext

\* Whatever the interval and the timeouts, and however many operations are slow, the
\* second attempt is over a guard before the next tick but for a timeout for each
\* slow operation after the first.
THEOREM RetryCostsItsTimeouts == FetchSpec => []RetryCost
<1>1. SpendingInv => RetryCost
  <2> SUFFICES ASSUME SpendingInv, attempt = 2, fetchPc # "delay"
               PROVE  fetchClock <= fetchInterval - Guard + GreaterOf(slow - 1, 0) * limit
    BY DEF RetryCost
  <2>1. CASE slow = 0
    BY <2>1, BudgetAssumption DEF SpendingInv, GreaterOf
  <2>2. CASE slow > 0
    <3>1. slow * limit = (slow - 1) * limit + limit
      BY DEF SpendingInv
    <3>2. GreaterOf(slow - 1, 0) = slow - 1
      BY <2>2 DEF SpendingInv, GreaterOf
    <3>3. (slow - 1) * limit \in Int
      BY DEF SpendingInv
    <3> QED
      BY <3>1, <3>2, <3>3, BudgetAssumption DEF SpendingInv
  <2> QED
    BY <2>1, <2>2 DEF SpendingInv
<1>2. SpendingInv /\ [FetchNext]_fetchVars => SpendingInv'
  BY SpendingStep
<1> QED
  BY <1>1, <1>2, SpendingStarts, PTL DEF FetchSpec

-------------------------------------------------------------------------------
(* The watches.                                                            *)

LEMMA OlderIs ==
  ASSUME NEW most \in Nat, NEW a \in 0..(most + 1)
  PROVE  Older(a, most) \in 0..(most + 1)
BY DEF Older

LEMMA OlderInOrder ==
  ASSUME NEW most \in Nat, NEW a \in 0..(most + 1), NEW b \in 0..(most + 1), a <= b
  PROVE  Older(a, most) <= Older(b, most)
BY DEF Older

LEMMA WatchesStart == WatchesInit => WatchesTypeOK
<1> SUFFICES ASSUME WatchesInit PROVE WatchesTypeOK
  OBVIOUS
<1>1. /\ SilentAfter + 1 \in 0..(SilentAfter + 1) /\ Stale + 1 \in 0..(Stale + 1)
      /\ 0 \in 0..(SilentAfter + 1) /\ WatchEvery \in 0..WatchEvery
      /\ 0 \in 0..MaxRecordLosses /\ {Unknown, 1} \subseteq 0..Versions
  BY WatchesAssumption DEF Unknown
<1>2. driver \in [loaded : 0..Versions, installed : 0..Versions, mixed : BOOLEAN,
                  smi : BOOLEAN]
  BY <1>1 DEF WatchesInit
<1> QED
  BY <1>1, <1>2 DEF WatchesInit, WatchesTypeOK

\* A pair of versions of the driver is one.
LEMMA PairIsOne ==
  ASSUME WatchesTypeOK, DriverState.verdict = "differ"
  PROVE  DriverState.pair \in Pairs
<1>1. driver.loaded \in 1..Versions /\ driver.installed \in 0..Versions /\ Unknown \in 0..Versions
  BY WatchesAssumption DEF WatchesTypeOK, DriverState, Unknown
<1> QED
  BY <1>1 DEF DriverState, Pairs

LEMMA CamerasAreNoPairs == Cameras \cap Pairs = {} /\ NoPair \notin Pairs
<1>1. Pairs \subseteq Nat \X Nat
  BY WatchesAssumption DEF Pairs
<1>2. NoPair \notin Pairs
  BY DEF NoPair, Pairs
<1> QED
  BY <1>1, <1>2, NamesAssumption

LEMMA WatchesTypeStep == WatchesTypeOK /\ [WatchesNext]_watchVars => WatchesTypeOK'
<1> SUFFICES ASSUME WatchesTypeOK, [WatchesNext]_watchVars PROVE WatchesTypeOK'
  OBVIOUS
<1>1. CASE CameraTurns
  BY <1>1 DEF CameraTurns, WatchesTypeOK, heart, record
<1>2. CASE Configure
  BY <1>2 DEF Configure, WatchesTypeOK, heart, record
<1>3. CASE PauseToggled
  BY <1>3 DEF PauseToggled, WatchesTypeOK, heart, record
<1>4. ASSUME NEW cameras \in SUBSET Cameras, NEW says \in BOOLEAN, watchPaused' \in BOOLEAN,
             Beat(says, cameras)
      PROVE  /\ beat' \in [running : BOOLEAN, paused : BOOLEAN, cameras : SUBSET Cameras,
                           auth : SUBSET Cameras]
             /\ beatAge' \in 0..(Stale + 1)
  BY <1>4, WatchesAssumption DEF Beat
<1>5. CASE DaemonStops
  <2>1. CASE Beat(FALSE, captured)
    BY <1>5, <1>4, <2>1 DEF DaemonStops, WatchesTypeOK, record
  <2>2. CASE UNCHANGED <<beat, beatAge>>
    BY <1>5, <2>2 DEF DaemonStops, WatchesTypeOK, record
  <2> QED
    BY <1>5, <2>1, <2>2 DEF DaemonStops
<1>6. CASE Upgrade \/ UpgradeEnds \/ Restart
  <2>1. driver' \in [loaded : 0..Versions, installed : 0..Versions, mixed : BOOLEAN,
                     smi : BOOLEAN]
    <3>1. driver \in [loaded : 0..Versions, installed : 0..Versions, mixed : BOOLEAN,
                      smi : BOOLEAN]
      BY DEF WatchesTypeOK
    <3>2. CASE Upgrade
      <4>1. driver.installed + 1 \in 0..Versions
        BY <3>1, <3>2, WatchesAssumption DEF Upgrade
      <4> QED
        BY <3>1, <3>2, <4>1 DEF Upgrade
    <3>3. CASE UpgradeEnds
      BY <3>1, <3>3 DEF UpgradeEnds
    <3>4. CASE Restart
      BY <3>1, <3>4 DEF Restart
    <3> QED
      BY <1>6, <3>2, <3>3, <3>4
  <2> QED
    BY <1>6, <2>1
    DEF Upgrade, UpgradeEnds, Restart, WatchesTypeOK, capture, heart, record
<1>7. CASE DaemonStarts
  <2>1. asked' \in [Cameras -> 0..(SilentAfter + 1)] /\ beatUp' \in 0..(SilentAfter + 1)
    BY <1>7, WatchesAssumption DEF DaemonStarts
  <2>2. Beat(TRUE, enabled) /\ enabled \in SUBSET Cameras /\ watchPaused' \in BOOLEAN
    BY <1>7 DEF DaemonStarts, WatchesTypeOK
  <2>3. /\ beat' \in [running : BOOLEAN, paused : BOOLEAN, cameras : SUBSET Cameras,
                      auth : SUBSET Cameras]
        /\ beatAge' \in 0..(Stale + 1)
    BY <1>4, <2>2
  <2> QED
    BY <1>7, <2>1, <2>3 DEF DaemonStarts, WatchesTypeOK, record
<1>8. CASE WriteBeat
  BY <1>4, <1>8 DEF WriteBeat, WatchesTypeOK, record
<1>9. CASE MinutePasses
  <2>1. age' \in [Cameras -> 0..(SilentAfter + 1)]
    BY <1>9, OlderIs, WatchesAssumption DEF MinutePasses, WatchesTypeOK
  <2>2. asked' \in [Cameras -> 0..(SilentAfter + 1)]
    <3>1. \A c \in Cameras : Older(asked[c], SilentAfter) \in 0..(SilentAfter + 1)
      BY OlderIs, WatchesAssumption DEF WatchesTypeOK
    <3> QED
      BY <1>9, <3>1 DEF MinutePasses, WatchesTypeOK
  <2>3. beatAge' \in 0..(Stale + 1) /\ beatUp' \in 0..(SilentAfter + 1)
    BY <1>9, OlderIs, WatchesAssumption DEF MinutePasses, WatchesTypeOK
  <2>4. checked' \in 0..WatchEvery
    BY <1>9, WatchesAssumption DEF MinutePasses, WatchesTypeOK
  <2> QED
    BY <1>9, <2>1, <2>2, <2>3, <2>4 DEF MinutePasses, WatchesTypeOK
<1>10. ASSUME NEW unread \in SUBSET Cameras, NEW alarm \in BOOLEAN, NEW clear \in BOOLEAN,
              WatchCameras(unread, alarm, clear)
       PROVE  WatchesTypeOK'
  <2>1. unwritten'.silent \subseteq Cameras /\ open' \subseteq Cameras \cup Pairs
    BY <1>10 DEF WatchCameras, WatchesTypeOK, Recorded
  <2>2. unwritten' \in [of : {"cameras"}, silent : SUBSET Cameras]
    BY <1>10, <2>1 DEF WatchCameras
  <2> QED
    BY <1>10, <2>1, <2>2 DEF WatchCameras, WatchesTypeOK, capture, heart, record
<1>11. ASSUME NEW sinks \in {"take", "refuse", "none"}, WatchDriver(sinks) PROVE WatchesTypeOK'
  <2> DEFINE d    == DriverState
             next == IF d.verdict = "differ" THEN d.pair ELSE NoPair
  <2>1. next \in Pairs \cup {NoPair}
    BY PairIsOne
  <2> HIDE DEF d, next
  <2>2. unwritten' \in [of : {"driver"}, pair : Pairs \cup {NoPair}, checked : 0..WatchEvery]
    <3>1. 0 \in 0..WatchEvery /\ checked \in 0..WatchEvery /\ pair \in Pairs \cup {NoPair}
      BY WatchesAssumption DEF WatchesTypeOK
    <3>2. Saving(next, 0) \/ Saving(pair, checked) \/ Saving(pair, 0)
      BY <1>11 DEF WatchDriver, d, next
    <3> QED
      BY <2>1, <3>1, <3>2 DEF Saving
  <2>3. open' \subseteq Cameras \cup Pairs
    <3>1. open' = (open \ Pairs) \cup ({next} \ {NoPair}) \/ open' = open
      BY <1>11 DEF WatchDriver, d, next
    <3> QED
      BY <2>1, <3>1 DEF WatchesTypeOK
  <2> QED
    BY <1>11, <2>2, <2>3 DEF WatchDriver, WatchesTypeOK, capture, heart, record
<1>12. CASE SaveNotified
  BY <1>12 DEF SaveNotified, WatchesTypeOK, capture, heart, Nothing
<1>13. CASE RecordLost
  <2>1. recordLosses' \in 0..MaxRecordLosses
    BY <1>13, WatchesAssumption DEF RecordLost, WatchesTypeOK
  <2> QED
    BY <1>13, <2>1 DEF RecordLost, WatchesTypeOK, capture, heart, record
<1>14. ASSUME NEW c \in Cameras, FrameLands(c) PROVE WatchesTypeOK'
  BY <1>14, WatchesAssumption DEF FrameLands, WatchesTypeOK, heart, record
<1>15. CASE UNCHANGED watchVars
  BY <1>15 DEF watchVars, WatchesTypeOK, capture, heart, record
<1> QED
  BY <1>1, <1>2, <1>3, <1>5, <1>6, <1>7, <1>8, <1>9, <1>10, <1>11, <1>12, <1>13, <1>14, <1>15
  DEF WatchesNext, Surroundings, WatchStep

THEOREM WatchesTyped == WatchesSpec => []WatchesTypeOK
BY WatchesStart, WatchesTypeStep, PTL DEF WatchesSpec

\* An alarm whose record is not lost is on the record until its all-clear, or about
\* to be written there.
OnRecord ==
  recordLosses = 0 =>
    open \cap Cameras \subseteq IF unwritten.of = "cameras" THEN unwritten.silent ELSE silent

LEMMA OnRecordStep == WatchesTypeOK /\ OnRecord /\ [WatchesNext]_watchVars => OnRecord'
<1> SUFFICES ASSUME WatchesTypeOK, OnRecord, [WatchesNext]_watchVars PROVE OnRecord'
  OBVIOUS
<1>1. CASE UNCHANGED <<silent, unwritten, recordLosses, open>>
  BY <1>1 DEF OnRecord
<1>2. ASSUME NEW unread \in SUBSET Cameras, NEW alarm \in BOOLEAN, NEW clear \in BOOLEAN,
             WatchCameras(unread, alarm, clear)
      PROVE  OnRecord'
  <2> DEFINE still == silent \cap enabled
             new   == {c \in enabled \ (unread \cup still) :
                         Silent(c) /\ ~LeftToCredentials(c)}
             back  == {c \in still \ unread : Delivering(c)}
             next  == (still \cup Recorded(new, alarm)) \ Recorded(back, clear)
             told  == IF alarm THEN new ELSE {}
             over  == (silent \ enabled) \cup IF clear THEN back ELSE {}
  <2>1. /\ unwritten = Nothing /\ unwritten' = [of |-> "cameras", silent |-> next]
        /\ open' = (open \ over) \cup told /\ recordLosses' = recordLosses
    BY <1>2 DEF WatchCameras
  <2>2. new \cap still = {} /\ back \subseteq still
    OBVIOUS
  <2> HIDE DEF new, back, still
  <2>3. recordLosses = 0 => open \cap Cameras \subseteq silent
    BY <2>1 DEF OnRecord, Nothing
  <2>4. silent \subseteq still \cup (silent \ enabled)
    BY DEF still
  <2>5. told \subseteq next
    BY <2>2 DEF Recorded
  <2>6. (silent \ over) \subseteq next
    BY <2>4 DEF Recorded
  <2> QED
    BY <2>1, <2>3, <2>5, <2>6 DEF OnRecord
<1>3. ASSUME NEW sinks \in {"take", "refuse", "none"}, WatchDriver(sinks) PROVE OnRecord'
  <2>1. open' \cap Cameras \subseteq open
    <3> DEFINE d    == DriverState
               next == IF d.verdict = "differ" THEN d.pair ELSE NoPair
    <3>1. next \in Pairs \cup {NoPair}
      BY PairIsOne
    <3> HIDE DEF d, next
    <3>2. open' = (open \ Pairs) \cup ({next} \ {NoPair}) \/ open' = open
      BY <1>3 DEF WatchDriver, d, next
    <3> QED
      BY <3>1, <3>2, CamerasAreNoPairs
  <2>2. unwritten = Nothing /\ unwritten'.of = "driver"
    BY <1>3 DEF WatchDriver, Saving
  <2>3. UNCHANGED <<silent, recordLosses>>
    BY <1>3 DEF WatchDriver, record
  <2> QED
    BY <2>1, <2>2, <2>3 DEF OnRecord, Nothing
<1>4. CASE SaveNotified
  BY <1>4 DEF SaveNotified, OnRecord, Nothing
<1>5. CASE RecordLost
  BY <1>5, WatchesAssumption DEF RecordLost, OnRecord, WatchesTypeOK
<1> QED
  BY <1>1, <1>2, <1>3, <1>4, <1>5
  DEF WatchesNext, Surroundings, WatchStep, watchVars, capture, heart, record,
      CameraTurns, Configure, PauseToggled, DaemonStops, Upgrade, UpgradeEnds, Restart,
      DaemonStarts, WriteBeat, MinutePasses, FrameLands

\* Of any number of cameras, none is reported silent twice without an all-clear between,
\* as long as no record is lost.
THEOREM SilenceIsToldOnce == WatchesSpec => SilenceToldOnce
<1>1. WatchesInit => OnRecord
  BY DEF WatchesInit, OnRecord
<1>2. WatchesTypeOK /\ OnRecord =>
        [\A c \in Cameras :
           unwritten = Nothing /\ unwritten' # Nothing /\ unwritten'.of = "cameras" =>
             (c \in unwritten'.silent \ silent => c \notin open \/ recordLosses > 0)]_watchVars
  BY WatchesAssumption DEF OnRecord, WatchesTypeOK, Nothing
<1> QED
  BY <1>1, <1>2, WatchesTyped, OnRecordStep, PTL DEF WatchesSpec, SilenceToldOnce

\* A camera that looks silent, by its frames and by how long the daemon says it runs,
\* has been asked for as long, or for as long less the age of the last word of a
\* daemon that is gone; and under a pause every camera is interrupted.
AskedInv ==
  /\ running /\ watchPaused => captured \subseteq interrupted
  /\ \A c \in captured \ interrupted :
    /\ running => asked[c] >= age[c] \/ asked[c] >= beatUp
    /\ BeatFresh => asked[c] + beatAge >= age[c] \/ asked[c] + beatAge >= beatUp

LEMMA PausedStep == AskedInv /\ [WatchesNext]_watchVars =>
                      (running /\ watchPaused => captured \subseteq interrupted)'
<1> SUFFICES ASSUME AskedInv, [WatchesNext]_watchVars
             PROVE  (running /\ watchPaused => captured \subseteq interrupted)'
  OBVIOUS
<1>1. CASE DaemonStarts
  BY <1>1 DEF DaemonStarts
<1>2. CASE PauseToggled
  BY <1>2 DEF PauseToggled
<1>3. CASE DaemonStops
  BY <1>3 DEF DaemonStops
<1>4. ASSUME NEW c \in Cameras, FrameLands(c)
      PROVE  (running /\ watchPaused => captured \subseteq interrupted)'
  BY <1>4 DEF FrameLands
<1>5. CASE UNCHANGED <<running, watchPaused, captured, interrupted>>
  BY <1>5 DEF AskedInv
<1> QED
  BY <1>1, <1>2, <1>3, <1>4, <1>5
  DEF WatchesNext, Surroundings, WatchStep, watchVars, capture, CameraTurns, Configure,
      Upgrade, UpgradeEnds, Restart, WriteBeat, MinutePasses, WatchCameras, WatchDriver,
      SaveNotified, RecordLost

LEMMA AskedStep == WatchesTypeOK /\ AskedInv /\ [WatchesNext]_watchVars => AskedInv'
<1> SUFFICES ASSUME WatchesTypeOK, AskedInv, [WatchesNext]_watchVars,
                    NEW c \in captured', c \notin interrupted', BeatFresh' \/ running'
             PROVE  /\ running' => asked'[c] >= age'[c] \/ asked'[c] >= beatUp'
                    /\ BeatFresh' => \/ asked'[c] + beatAge' >= age'[c]
                                     \/ asked'[c] + beatAge' >= beatUp'
  BY PausedStep, Zenon DEF AskedInv
<1>1. CASE UNCHANGED <<captured, running, asked, interrupted, age, beat, beatAge, beatUp>>
  BY <1>1 DEF AskedInv, BeatFresh
<1>2. CASE DaemonStarts
  <2>1. asked'[c] = 0 /\ beatUp' = 0 /\ beatAge' = 0
    BY <1>2 DEF DaemonStarts, Beat, WatchesTypeOK
  <2> QED
    BY <2>1
<1>3. CASE DaemonStops
  <2>1. ~running' /\ UNCHANGED <<captured, age, asked, interrupted, beatUp>>
    BY <1>3 DEF DaemonStops
  <2>2. CASE Beat(FALSE, captured)
    BY <2>1, <2>2 DEF Beat, BeatFresh
  <2>3. CASE UNCHANGED <<beat, beatAge>>
    BY <2>1, <2>3 DEF AskedInv, BeatFresh
  <2> QED
    BY <1>3, <2>2, <2>3 DEF DaemonStops
<1>4. CASE WriteBeat
  <2>1. /\ running /\ beatAge' = 0
        /\ UNCHANGED <<captured, running, age, asked, interrupted, beatUp>>
    BY <1>4 DEF WriteBeat, Beat
  <2>2. asked[c] \in Nat
    BY <2>1 DEF WatchesTypeOK
  <2> QED
    BY <2>1, <2>2 DEF AskedInv
<1>5. ASSUME NEW d \in Cameras, FrameLands(d)
      PROVE  /\ running' => asked'[c] >= age'[c] \/ asked'[c] >= beatUp'
             /\ BeatFresh' => \/ asked'[c] + beatAge' >= age'[c]
                              \/ asked'[c] + beatAge' >= beatUp'
  <2>1. UNCHANGED <<captured, running, beat, beatAge, beatUp>>
    BY <1>5 DEF FrameLands, heart
  <2>2. CASE c = d
    <3>1. age'[c] = 0 /\ asked'[c] = 0 /\ beatAge \in Nat
      BY <1>5, <2>2, WatchesAssumption DEF FrameLands, WatchesTypeOK
    <3> QED
      BY <2>1, <3>1
  <2>3. CASE c # d
    BY <1>5, <2>1, <2>3 DEF FrameLands, AskedInv, BeatFresh, WatchesTypeOK
  <2> QED
    BY <2>2, <2>3
<1>6. CASE MinutePasses
  <2>1. /\ captured' = captured /\ running' = running /\ beat' = beat
        /\ age'[c] = Older(age[c], SilentAfter) /\ beatUp' = Older(beatUp, SilentAfter)
        /\ beatAge' = Older(beatAge, Stale)
        /\ c \in captured \ interrupted
    BY <1>6 DEF MinutePasses, WatchesTypeOK
  <2>0. asked'[c] = IF running THEN Older(asked[c], SilentAfter) ELSE asked[c]
    <3>1. running => ~watchPaused
      BY <2>1 DEF AskedInv
    <3> QED
      BY <1>6, <2>1, <3>1 DEF MinutePasses, WatchesTypeOK
  <2>2. /\ age[c] \in 0..(SilentAfter + 1) /\ asked[c] \in 0..(SilentAfter + 1)
        /\ beatUp \in 0..(SilentAfter + 1) /\ beatAge \in 0..(Stale + 1)
    BY <2>1 DEF WatchesTypeOK
  <2>3. running' => asked'[c] >= age'[c] \/ asked'[c] >= beatUp'
    BY <2>0, <2>1, <2>2, OlderInOrder, WatchesAssumption DEF AskedInv
  <2>4. BeatFresh' => \/ asked'[c] + beatAge' >= age'[c]
                      \/ asked'[c] + beatAge' >= beatUp'
    <3> SUFFICES ASSUME BeatFresh' PROVE \/ asked'[c] + beatAge' >= age'[c]
                                         \/ asked'[c] + beatAge' >= beatUp'
      OBVIOUS
    <3>1. beatAge' = beatAge + 1 /\ BeatFresh
      BY <2>1, <2>2, WatchesAssumption DEF BeatFresh, Older
    <3>2. \A a \in 0..(SilentAfter + 1) :
            /\ Older(a, SilentAfter) \in Nat
            /\ a <= Older(a, SilentAfter) /\ Older(a, SilentAfter) <= a + 1
      BY WatchesAssumption DEF Older
    <3>3. /\ age'[c] \in Nat /\ age'[c] <= age[c] + 1
          /\ beatUp' \in Nat /\ beatUp' <= beatUp + 1
          /\ asked'[c] \in Nat /\ asked'[c] >= asked[c]
      <4>1. asked'[c] \in Nat /\ asked'[c] >= asked[c]
        BY <2>0, <2>1, <2>2, <3>2, WatchesAssumption
      <4> QED
        BY <2>1, <2>2, <3>2, <4>1
    <3> QED
      BY <2>1, <2>2, <3>1, <3>3 DEF AskedInv
  <2> QED
    BY <2>3, <2>4
<1>7. CASE PauseToggled
  BY <1>7 DEF PauseToggled, AskedInv, BeatFresh, heart
<1> QED
  BY <1>1, <1>2, <1>3, <1>4, <1>5, <1>6, <1>7
  DEF WatchesNext, Surroundings, WatchStep, watchVars, capture, heart, record,
      CameraTurns, Configure, Upgrade, UpgradeEnds, Restart,
      WatchCameras, WatchDriver, SaveNotified, RecordLost

\* A camera that the daemon captures, and has not had to pause, is reported silent only
\* after it was asked for the time the code allows it, whatever the times are, and
\* however often the daemon is restarted.
THEOREM AlarmsAreEarned == WatchesSpec => AlarmIsEarned
<1>1. WatchesInit => AskedInv
  BY DEF WatchesInit, AskedInv
<1>2. ASSUME WatchesTypeOK, AskedInv, [WatchesNext]_watchVars, NEW c \in captured \ interrupted,
             c \in open' \ open
      PROVE  asked[c] + Stale > SilentAfter
  <2>1. c \in Cameras
    BY <1>2 DEF WatchesTypeOK
  <2>2. \E unread \in SUBSET Cameras, alarm, clear \in BOOLEAN : WatchCameras(unread, alarm, clear)
    <3>1. ~ \E sinks \in {"take", "refuse", "none"} : WatchDriver(sinks)
      <4> SUFFICES ASSUME NEW sinks \in {"take", "refuse", "none"}, WatchDriver(sinks)
                   PROVE  FALSE
        OBVIOUS
      <4> DEFINE d    == DriverState
                 next == IF d.verdict = "differ" THEN d.pair ELSE NoPair
      <4>1. next \in Pairs \cup {NoPair}
        BY <1>2, PairIsOne
      <4> HIDE DEF d, next
      <4>2. open' = (open \ Pairs) \cup ({next} \ {NoPair}) \/ open' = open
        BY DEF WatchDriver, d, next
      <4> QED
        BY <1>2, <2>1, <4>1, <4>2, CamerasAreNoPairs
    <3> QED
      BY <1>2, <3>1
      DEF WatchesNext, Surroundings, WatchStep, watchVars, capture, heart, record,
          CameraTurns, Configure, PauseToggled, DaemonStops, Upgrade, UpgradeEnds, Restart,
          DaemonStarts, WriteBeat, MinutePasses, FrameLands, SaveNotified, RecordLost
  <2>3. BeatFresh /\ age[c] > SilentAfter /\ beatUp > SilentAfter
    BY <1>2, <2>2 DEF WatchCameras, Silent
  <2>4. beatAge <= Stale /\ (asked[c] + beatAge >= age[c] \/ asked[c] + beatAge >= beatUp)
    BY <1>2, <2>3 DEF AskedInv, BeatFresh
  <2>5. /\ age[c] \in Nat /\ asked[c] \in Nat /\ beatUp \in Nat /\ beatAge \in Nat
        /\ SilentAfter \in Nat /\ Stale \in Nat
    BY <1>2, <2>1, WatchesAssumption DEF WatchesTypeOK
  <2> QED
    BY <2>3, <2>4, <2>5
<1>3. WatchesTypeOK /\ AskedInv /\ [WatchesNext]_watchVars =>
        [\A c \in captured \ interrupted : c \in open' \ open => asked[c] + Stale > SilentAfter]_watchVars
  BY <1>2
<1> QED
  BY <1>1, <1>3, WatchesTyped, AskedStep, PTL DEF WatchesSpec, AlarmIsEarned

-------------------------------------------------------------------------------
(* The grabber of an RTSP camera.                                          *)

LEMMA DaysAndSeconds ==
  ASSUME NEW t \in Nat
  PROVE  /\ DayOf(t) \in Int /\ DayOf(t) * DayLen \in Int /\ SecOf(t) \in 0..(DayLen - 1)
         /\ t = DayOf(t) * DayLen + SecOf(t)
<1>1. DayLen \in Nat \ {0}
  BY GrabberAssumption
<1> DEFINE q == t \div DayLen
<1>2. q \in Int /\ q * DayLen <= t /\ t < (q + 1) * DayLen
  BY <1>1, Z3
<1> HIDE DEF q
<1>3. (q + 1) * DayLen = q * DayLen + DayLen /\ q * DayLen \in Int
  BY <1>1, <1>2
<1>4. DayOf(t) = q /\ SecOf(t) = t - q * DayLen
  BY DEF DayOf, SecOf, q
<1> QED
  BY <1>1, <1>2, <1>3, <1>4

LEMMA LaterDays ==
  ASSUME NEW d \in Int
  PROVE  /\ d * DayLen \in Int
         /\ (d + 1) * DayLen = d * DayLen + DayLen
         /\ (d + 2) * DayLen = d * DayLen + DayLen + DayLen
<1>1. DayLen \in Nat \ {0}
  BY GrabberAssumption
<1> QED
  BY <1>1, Z3

\* Who ends first began first.
LEMMA DaysInOrder ==
  ASSUME NEW a \in Int, NEW b \in Int, a * DayLen < b * DayLen
  PROVE  a + 1 <= b /\ (a + 1) * DayLen <= b * DayLen
<1>1. DayLen \in Nat \ {0}
  BY GrabberAssumption
<1>2. ASSUME b <= a PROVE b * DayLen <= a * DayLen
  BY <1>1, <1>2, Z3
<1>3. a + 1 <= b
  BY <1>1, <1>2, Z3
<1>4. (a + 1) * DayLen <= b * DayLen
  BY <1>1, <1>3, Z3
<1> QED
  BY <1>3, <1>4

\* An ffmpeg that runs is supervised, and for a time of its own.
GrabberRuns ==
  /\ GrabberTypeOK
  /\ proc \in {"connecting", "streaming"} => pc = "supervise" /\ span > 0

LEMMA GrabberStarts == GrabberInit => GrabberRuns
<1> SUFFICES ASSUME GrabberInit PROVE GrabberRuns
  OBVIOUS
<1>1. 0 \in 0..MaxClock /\ 0 \in 0..DayLen /\ 0 \in 0..MaxKills /\ NoDay \in Int
  BY GrabberAssumption DEF NoDay
<1>2. DOMAIN marker = {}
  BY DEF GrabberInit
<1>3. /\ clock \in 0..MaxClock /\ kills \in 0..MaxKills /\ span \in 0..DayLen
      /\ cfg \in Intervals \cup {Unreadable} /\ today \in Int
  BY <1>1 DEF GrabberInit
<1>4. /\ dirs \subseteq Int /\ DOMAIN marker \subseteq dirs
      /\ \A d \in DOMAIN marker : marker[d] \in Intervals
      /\ frames \subseteq Frame
  BY <1>2 DEF GrabberInit
<1>5. pc = "down" /\ proc = "none" /\ interval = 0 /\ left \in Int
  BY DEF GrabberInit
<1>6. grabberPaused \in BOOLEAN /\ stopping \in BOOLEAN
  BY Zenon DEF GrabberInit
<1>7. GrabberTypeOK
  BY <1>3, <1>4, <1>5, <1>6 DEF GrabberTypeOK
<1> QED
  BY <1>5, <1>7 DEF GrabberRuns

LEMMA ClockTyped ==
  ASSUME GrabberTypeOK
  PROVE  clock \in Nat /\ clock <= MaxClock /\ MaxClock \in Nat
BY GrabberAssumption DEF GrabberTypeOK

LEMMA SpanTyped ==
  ASSUME GrabberTypeOK
  PROVE  ToMidnight \in 1..DayLen /\ clock + ToMidnight = (DayOf(clock) + 1) * DayLen
<1>1. /\ DayOf(clock) \in Int /\ DayOf(clock) * DayLen \in Int
      /\ SecOf(clock) \in 0..(DayLen - 1) /\ clock = DayOf(clock) * DayLen + SecOf(clock)
  BY ClockTyped, DaysAndSeconds
<1>2. (DayOf(clock) + 1) * DayLen = DayOf(clock) * DayLen + DayLen
  BY <1>1, LaterDays
<1>3. DayLen \in Nat \ {0}
  BY GrabberAssumption
<1> QED
  BY <1>1, <1>2, <1>3, ClockTyped DEF ToMidnight

\* What ffmpeg writes is a frame of its day and its cadence.
LEMMA FrameTyped ==
  ASSUME GrabberRuns, FrameWritten
  PROVE  /\ today \in dirs /\ proc = "streaming" /\ pc = "supervise"
         /\ \E f \in Frame :
              /\ f.day = today /\ f.cadence = interval /\ f.at = clock
              /\ f \in frames'
              /\ \A g \in frames' : g = f \/ g \in frames
              /\ \A g \in frames : g \in frames' \/ g.day = f.day
<1> DEFINE f == [day |-> today, sec |-> SecOf(clock), cadence |-> interval, at |-> clock]
<1>1. today \in dirs /\ proc = "streaming" /\ pc = "supervise"
  BY DEF FrameWritten, GrabberRuns
<1>2. f \in Frame
  <2>1. SecOf(clock) \in Nat
    BY ClockTyped, DaysAndSeconds, GrabberAssumption DEF GrabberRuns
  <2> QED
    BY <1>1, <2>1, ClockTyped DEF GrabberRuns, GrabberTypeOK, Frame
<1>3. /\ f.day = today /\ f.cadence = interval /\ f.at = clock
      /\ f \in frames'
      /\ \A g \in frames' : g = f \/ g \in frames
      /\ \A g \in frames : g \in frames' \/ g.day = f.day
  BY DEF FrameWritten
<1> QED
  BY <1>1, <1>2, <1>3

\* begin_day settles on a cadence of config.json's.
LEMMA CadenceSettled ==
  ASSUME GrabberTypeOK, NEW d, NEW i \in Intervals
  PROVE  CadenceFor(d, i) \in Intervals
BY DEF GrabberTypeOK, CadenceFor, Unreadable

LEMMA MarkerTyped ==
  ASSUME GrabberTypeOK, NEW d \in Int, interval \in Intervals, WriteCadence(d, interval)
  PROVE  /\ DOMAIN marker \subseteq DOMAIN marker' /\ DOMAIN marker' \subseteq DOMAIN marker \cup {d}
         /\ \A e \in DOMAIN marker' : marker'[e] \in Intervals
         /\ \A e \in DOMAIN marker : marker'[e] = marker[e]
         /\ d \in DOMAIN marker' \ DOMAIN marker => marker'[d] = interval
         /\ ~MarkerMayFail => d \in DOMAIN marker'
BY DEF GrabberTypeOK, WriteCadence

LEMMA GrabberStep == GrabberRuns /\ [GrabberNext]_grabberVars => GrabberRuns'
<1> SUFFICES ASSUME GrabberRuns, [GrabberNext]_grabberVars PROVE GrabberRuns'
  OBVIOUS
<1> USE DEF GrabberRuns, disk, grabber
<1>1. CASE PassTime
  <2>1. clock' \in 0..MaxClock
    BY <1>1, ClockTyped DEF PassTime
  <2>2. frames' \subseteq Frame
    BY <1>1, FrameTyped DEF PassTime, GrabberTypeOK
  <2>3. left \in Int /\ left - 1 \in Int /\ (left > 0 /\ left # 1 => left - 1 > 0)
    BY DEF GrabberTypeOK
  <2>4. /\ left' \in {left, left - 1} /\ left' \in Int
        /\ proc' \in {proc, "finished", "failed"}
        /\ proc' \in {"connecting", "streaming"} => proc' = proc
        /\ proc' = "streaming" => left' > 0
    BY <1>1, <2>3 DEF PassTime, GrabberTypeOK
  <2> QED
    BY <1>1, <2>1, <2>2, <2>4 DEF PassTime, GrabberTypeOK
<1>2. CASE Connect
  BY <1>2 DEF Connect, GrabberTypeOK
<1>3. CASE Die
  BY <1>3 DEF Die, GrabberTypeOK
<1>4. CASE EditConfig
  BY <1>4 DEF EditConfig, GrabberTypeOK
<1>5. CASE PausesOrResumes
  BY <1>5 DEF PausesOrResumes, GrabberTypeOK
<1>6. ASSUME NEW d \in dirs, RemoveDay(d) PROVE GrabberRuns'
  BY <1>6 DEF RemoveDay, GrabberTypeOK
<1>7. CASE RecordCadences
  <2>1. DayOf(clock) \in Int
    BY ClockTyped, DaysAndSeconds
  <2>2. interval \in Intervals /\ DayOf(clock) \in dirs /\ WriteCadence(DayOf(clock), interval)
    BY <1>7 DEF RecordCadences, GrabberTypeOK
  <2>3. /\ DOMAIN marker' \subseteq DOMAIN marker \cup {DayOf(clock)}
        /\ \A e \in DOMAIN marker' : marker'[e] \in Intervals
    BY <2>1, <2>2, MarkerTyped
  <2> QED
    BY <1>7, <2>2, <2>3 DEF RecordCadences, GrabberTypeOK
<1>8. CASE Start
  <2>1. interval' \in Intervals
    BY <1>8, CadenceSettled DEF Start, GrabberTypeOK
  <2> QED
    BY <1>8, <2>1 DEF Start, GrabberTypeOK
<1>9. CASE RequestStop
  BY <1>9 DEF RequestStop, GrabberTypeOK
<1>10. CASE Kill
  <2>1. kills' \in 0..MaxKills
    BY <1>10, GrabberAssumption DEF Kill, GrabberTypeOK
  <2> QED
    BY <1>10, <2>1 DEF Kill, GrabberTypeOK
<1>11. CASE ThreadEnds
  BY <1>11 DEF ThreadEnds, GrabberTypeOK
<1>12. CASE ChooseDay
  <2>1. DayOf(clock) \in Int /\ interval' \in Intervals
    BY <1>12, ClockTyped, DaysAndSeconds, CadenceSettled DEF ChooseDay, GrabberTypeOK
  <2> QED
    BY <1>12, <2>1, GrabberAssumption DEF ChooseDay, GrabberTypeOK
<1>13. CASE PrepareDay
  <2>1. today \in Int /\ interval \in Intervals /\ WriteCadence(today, interval)
    BY <1>13 DEF PrepareDay, GrabberTypeOK
  <2>2. /\ DOMAIN marker' \subseteq DOMAIN marker \cup {today}
        /\ \A e \in DOMAIN marker' : marker'[e] \in Intervals
    BY <2>1, MarkerTyped
  <2> QED
    BY <1>13, <2>1, <2>2 DEF PrepareDay, GrabberTypeOK
<1>14. CASE Launch
  <2>1. ToMidnight \in 0..DayLen /\ ToMidnight > 0 /\ MaxConnect \in Int
    BY SpanTyped, GrabberAssumption
  <2> QED
    BY <1>14, <2>1 DEF Launch, GrabberTypeOK
<1>15. CASE SuperviseSees
  BY <1>15 DEF SuperviseSees, GrabberTypeOK
<1>16. CASE SuperviseEnds
  BY <1>16 DEF SuperviseEnds, GrabberTypeOK
<1>17. CASE Discard
  <2>1. dirs' \subseteq dirs /\ DOMAIN marker' \subseteq dirs'
        /\ \A d \in DOMAIN marker' : marker'[d] \in Intervals
    BY <1>17 DEF Discard, GrabberTypeOK
  <2> QED
    BY <1>17, <2>1 DEF Discard, AfterTheRun, GrabberTypeOK
<1>18. CASE UNCHANGED grabberVars
  BY <1>18 DEF grabberVars, GrabberTypeOK
<1> QED
  BY <1>1, <1>2, <1>3, <1>4, <1>5, <1>6, <1>7, <1>8, <1>9, <1>10, <1>11, <1>12, <1>13,
     <1>14, <1>15, <1>16, <1>17, <1>18 DEF GrabberNext

LEMMA GrabberHolds == GrabberSpec => []GrabberRuns
BY GrabberStarts, GrabberStep, PTL DEF GrabberSpec

\* The grabber keeps its types; -t is at least a second and at most a day.
THEOREM GrabberTyped == GrabberSpec => []GrabberTypeOK
<1>1. GrabberRuns => GrabberTypeOK
  BY DEF GrabberRuns
<1> QED
  BY <1>1, GrabberHolds, PTL

\* A unit of time takes no frame away, and adds only one of today's.
LEMMA FramesStay ==
  ASSUME GrabberRuns, PassTime, NEW d, HasFrames(d)
  PROVE  HasFrames(d)'
<1>1. CASE UNCHANGED frames
  BY <1>1 DEF HasFrames
<1>2. CASE FrameWritten
  BY <1>2, FrameTyped DEF HasFrames
<1> QED
  BY <1>1, <1>2 DEF PassTime

\* The day a launch was made for.
Held(d) == d = today /\ pc \in {"prepared", "supervise", "ended"}

LEMMA EmptyDayStep ==
  GrabberRuns /\ NoEmptyDays /\ [GrabberNext]_grabberVars => NoEmptyDays'
<1> SUFFICES ASSUME GrabberRuns, NoEmptyDays, [GrabberNext]_grabberVars,
                    kills' = 0, NEW e \in dirs'
             PROVE  HasFrames(e)' \/ Held(e)'
  BY DEF NoEmptyDays, Held
<1> USE DEF disk, grabber
\* Most steps leave the days and their frames alone, and the thread where it holds one.
<1>1. ASSUME UNCHANGED <<dirs, frames, kills>>, Held(e) => Held(e)' PROVE HasFrames(e)' \/ Held(e)'
  BY <1>1 DEF NoEmptyDays, HasFrames, Held
<1>2. CASE PassTime
  <2>1. UNCHANGED <<dirs, kills, today>> /\ (pc' = pc \/ pc = "backoff")
    BY <1>2 DEF PassTime
  <2>2. HasFrames(e) \/ Held(e)
    BY <2>1 DEF NoEmptyDays, Held
  <2>3. Held(e) => Held(e)'
    BY <2>1 DEF Held
  <2> QED
    BY <1>2, <2>2, <2>3, FramesStay
<1>3. ASSUME NEW d \in dirs, RemoveDay(d) PROVE HasFrames(e)' \/ Held(e)'
  <2>1. e \in dirs /\ e # d /\ UNCHANGED <<kills, today, pc>>
    BY <1>3 DEF RemoveDay
  <2>2. frames' = {f \in frames : f.day # d}
    BY <1>3 DEF RemoveDay
  <2> QED
    BY <2>1, <2>2 DEF NoEmptyDays, HasFrames, Held
<1>4. CASE Kill
  <2>1. kills' > 0
    BY <1>4 DEF Kill, GrabberRuns, GrabberTypeOK
  <2> QED
    BY <2>1
<1>5. CASE PrepareDay
  BY <1>5 DEF PrepareDay, NoEmptyDays, HasFrames, Held
<1>6. CASE Discard
  BY <1>6 DEF Discard, AfterTheRun, NoEmptyDays, HasFrames, Held
<1>7. CASE Connect \/ Die \/ EditConfig \/ PausesOrResumes \/ RecordCadences \/ RequestStop
  <2>1. UNCHANGED <<dirs, frames, kills, today, pc>>
    BY <1>7 DEF Connect, Die, EditConfig, PausesOrResumes, RecordCadences, RequestStop
  <2> QED
    BY <1>1, <2>1 DEF Held
<1>8. CASE Start \/ ThreadEnds \/ ChooseDay \/ Launch \/ SuperviseSees \/ SuperviseEnds
  <2>1. UNCHANGED <<dirs, frames, kills>> /\ (Held(e) => Held(e)')
    BY <1>8 DEF Start, ThreadEnds, ChooseDay, Launch, SuperviseSees, SuperviseEnds, Held
  <2> QED
    BY <1>1, <2>1
<1>9. CASE UNCHANGED grabberVars
  <2>1. UNCHANGED <<dirs, frames, kills, today, pc>>
    BY <1>9 DEF grabberVars
  <2> QED
    BY <1>1, <2>1 DEF Held
<1> QED
  BY <1>2, <1>3, <1>4, <1>5, <1>6, <1>7, <1>8, <1>9 DEF GrabberNext

\* A camera that delivers nothing leaves no directory behind, however its grabber
\* ended: at midnight, failed, paused or stopped.
THEOREM NoDayLeftEmpty == GrabberSpec => []NoEmptyDays
<1>1. GrabberInit => NoEmptyDays
  BY DEF GrabberInit, NoEmptyDays
<1> QED
  BY <1>1, GrabberHolds, EmptyDayStep, PTL DEF GrabberSpec

-------------------------------------------------------------------------------
\* A launch carries the cadence its day has on record.
OneCadence ==
  /\ dirs \subseteq DOMAIN marker /\ FramesMatchMarker
  /\ pc \in {"chosen", "prepared", "supervise", "ended"} /\ today \in DOMAIN marker
       => marker[today] = interval

LEMMA OneCadenceStep ==
  ASSUME ~MarkerMayFail
  PROVE  GrabberRuns /\ OneCadence /\ [GrabberNext]_grabberVars => OneCadence'
<1> SUFFICES ASSUME GrabberRuns, OneCadence, [GrabberNext]_grabberVars PROVE OneCadence'
  OBVIOUS
<1> USE DEF disk, grabber
<1> DEFINE Bound == pc \in {"chosen", "prepared", "supervise", "ended"}
\* A step that leaves the disk alone.
<1>1. ASSUME UNCHANGED disk, Bound' => Bound /\ UNCHANGED <<today, interval>>
      PROVE  OneCadence'
  BY <1>1 DEF OneCadence, FramesMatchMarker
<1>2. CASE PassTime
  <2>1. UNCHANGED <<dirs, marker, today, interval>> /\ pc' \in {pc, "top"}
    BY <1>2 DEF PassTime
  <2>2. FramesMatchMarker'
    <3>1. CASE UNCHANGED frames
      BY <2>1, <3>1 DEF OneCadence, FramesMatchMarker
    <3>2. CASE FrameWritten
      <4>1. PICK f \in Frame : /\ f.day = today /\ f.cadence = interval
                               /\ \A g \in frames' : g = f \/ g \in frames
        BY <3>2, FrameTyped
      <4>2. today \in DOMAIN marker /\ marker[today] = interval
        BY <3>2, FrameTyped DEF OneCadence
      <4> QED
        BY <2>1, <4>1, <4>2 DEF OneCadence, FramesMatchMarker
    <3> QED
      BY <1>2, <3>1, <3>2 DEF PassTime
  <2> QED
    BY <2>1, <2>2 DEF OneCadence
<1>3. ASSUME NEW d \in dirs, RemoveDay(d) PROVE OneCadence'
  BY <1>3 DEF RemoveDay, OneCadence, FramesMatchMarker
<1>4. CASE RecordCadences
  <2>1. DayOf(clock) \in DOMAIN marker
    BY <1>4 DEF RecordCadences, OneCadence
  <2>2. UNCHANGED <<dirs, marker, frames, pc, today, interval>>
    BY <1>4, <2>1 DEF RecordCadences, WriteCadence
  <2> QED
    BY <1>1, <2>2
<1>5. CASE ChooseDay
  <2>1. today' \in DOMAIN marker => interval' = marker[today']
    BY <1>5 DEF ChooseDay, CadenceFor
  <2> QED
    BY <1>5, <2>1 DEF ChooseDay, OneCadence, FramesMatchMarker
<1>6. CASE PrepareDay
  <2>1. today \in Int /\ interval \in Intervals /\ WriteCadence(today, interval)
        /\ dirs' = dirs \cup {today} /\ UNCHANGED <<frames, today, interval>> /\ pc = "chosen"
    BY <1>6 DEF PrepareDay, GrabberRuns, GrabberTypeOK
  <2>2. /\ DOMAIN marker \subseteq DOMAIN marker' /\ today \in DOMAIN marker'
        /\ \A e \in DOMAIN marker : marker'[e] = marker[e]
        /\ today \in DOMAIN marker' \ DOMAIN marker => marker'[today] = interval
    BY <2>1, MarkerTyped DEF GrabberRuns
  <2> QED
    BY <2>1, <2>2 DEF OneCadence, FramesMatchMarker
<1>7. CASE Discard
  <2>1. CASE HasFrames(today)
    BY <1>7, <2>1 DEF Discard, AfterTheRun, OneCadence, FramesMatchMarker
  <2>2. CASE ~HasFrames(today)
    BY <1>7, <2>2 DEF Discard, AfterTheRun, OneCadence, FramesMatchMarker, HasFrames
  <2> QED
    BY <2>1, <2>2
<1>8. CASE Connect \/ Die \/ EditConfig \/ PausesOrResumes \/ RequestStop
  <2>1. UNCHANGED <<disk, pc, today, interval>>
    BY <1>8 DEF Connect, Die, EditConfig, PausesOrResumes, RequestStop
  <2> QED
    BY <1>1, <2>1
<1>9. CASE Kill \/ ThreadEnds \/ Start
  <2>1. UNCHANGED disk /\ pc' \in {"down", "top"}
    BY <1>9 DEF Kill, ThreadEnds, Start
  <2> QED
    BY <1>1, <2>1
<1>10. CASE Launch \/ SuperviseSees \/ SuperviseEnds
  <2>1. UNCHANGED <<disk, today, interval>> /\ pc \in {"prepared", "supervise"}
    BY <1>10 DEF Launch, SuperviseSees, SuperviseEnds
  <2> QED
    BY <1>1, <2>1
<1>11. CASE UNCHANGED grabberVars
  <2>1. UNCHANGED <<disk, pc, today, interval>>
    BY <1>11 DEF grabberVars
  <2> QED
    BY <1>1, <2>1
<1> QED
  BY <1>2, <1>3, <1>4, <1>5, <1>6, <1>7, <1>8, <1>9, <1>10, <1>11 DEF GrabberNext

\* A day's frames are of the cadence its marker records, for an RTSP camera that is
\* relaunched, paused and killed within the day, as long as markers can be written.
THEOREM OneCadencePerLaunch ==
  ASSUME ~MarkerMayFail PROVE GrabberSpec => []FramesMatchMarker
<1>1. GrabberInit => OneCadence
  BY DEF GrabberInit, OneCadence, FramesMatchMarker
<1>2. OneCadence => FramesMatchMarker
  BY DEF OneCadence
<1> QED
  BY <1>1, <1>2, GrabberHolds, OneCadenceStep, PTL DEF GrabberSpec

-------------------------------------------------------------------------------
\* The end of the time that is filed under a day: its own midnight, or the next one
\* when midnight may fall between the reading of the day and of -t.
LastMidnight(d) == (d + (IF MaxSetup = 0 THEN 1 ELSE 2)) * DayLen

\* The setup, the connecting and the stream are each over in time for it.
OverrunInv ==
  /\ pc \in {"chosen", "prepared"} =>
       left >= 0 /\ clock + left < (today + 1) * DayLen + MaxSetup
  /\ proc = "connecting" =>
       left >= 0 /\ clock + left + span <= LastMidnight(today) + MaxConnect
  /\ proc = "streaming" => clock + left <= LastMidnight(today) + MaxConnect
  /\ \A f \in frames : f.at < LastMidnight(f.day) + MaxConnect

LEMMA LastMidnightIs ==
  ASSUME NEW d \in Int
  PROVE  /\ LastMidnight(d) \in Int
         /\ MaxSetup = 0 => LastMidnight(d) = (d + 1) * DayLen
         /\ MaxSetup # 0 => LastMidnight(d) = (d + 2) * DayLen
         /\ (d + 1) * DayLen <= LastMidnight(d)
<1>1. DayLen \in Nat \ {0}
  BY GrabberAssumption
<1>2. CASE MaxSetup = 0
  <2>1. LastMidnight(d) = (d + 1) * DayLen
    BY <1>2 DEF LastMidnight
  <2> QED
    BY <1>1, <1>2, <2>1, LaterDays
<1>3. CASE MaxSetup # 0
  <2>1. LastMidnight(d) = (d + 2) * DayLen
    BY <1>3 DEF LastMidnight
  <2> QED
    BY <1>1, <1>3, <2>1, LaterDays
<1> QED
  BY <1>2, <1>3

\* -t from whatever moment the setup may have taken it to.
LEMMA LaunchInTime ==
  ASSUME GrabberRuns, clock < (today + 1) * DayLen + MaxSetup
  PROVE  clock + ToMidnight <= LastMidnight(today)
<1>1. /\ MaxSetup \in Nat /\ MaxSetup <= DayLen /\ today \in Int /\ clock \in Nat
      /\ DayLen \in Nat \ {0} /\ ToMidnight \in Int
  BY GrabberAssumption, ClockTyped, SpanTyped DEF GrabberRuns, GrabberTypeOK
<1> DEFINE d == DayOf(clock)
<1>2. d \in Int /\ d * DayLen \in Int /\ d * DayLen <= clock
  BY <1>1, DaysAndSeconds
<1>3. clock + ToMidnight = (d + 1) * DayLen
  BY SpanTyped DEF GrabberRuns
<1> HIDE DEF d
<1>4. CASE MaxSetup = 0
  <2>1. d * DayLen < (today + 1) * DayLen
    BY <1>1, <1>2, <1>4, LaterDays
  <2>2. (d + 1) * DayLen <= (today + 1) * DayLen
    BY <1>1, <1>2, <2>1, DaysInOrder
  <2> QED
    BY <1>1, <1>3, <1>4, <2>2, LastMidnightIs
<1>5. CASE MaxSetup # 0
  <2>1. d * DayLen < (today + 2) * DayLen
    BY <1>1, <1>2, LaterDays
  <2>2. (d + 1) * DayLen <= (today + 2) * DayLen
    BY <1>1, <1>2, <2>1, DaysInOrder
  <2> QED
    BY <1>1, <1>3, <1>5, <2>2, LastMidnightIs
<1> QED
  BY <1>4, <1>5

LEMMA OverrunStep ==
  GrabberRuns /\ OverrunInv /\ [GrabberNext]_grabberVars => OverrunInv'
<1> SUFFICES ASSUME GrabberRuns, OverrunInv, [GrabberNext]_grabberVars PROVE OverrunInv'
  OBVIOUS
<1> USE DEF disk, grabber
<1>1. /\ clock \in Nat /\ left \in Int /\ span \in Int /\ today \in Int
      /\ MaxConnect \in Nat /\ MaxSetup \in Nat /\ DayLen \in Nat \ {0}
  BY GrabberAssumption, ClockTyped DEF GrabberRuns, GrabberTypeOK
<1>2. LastMidnight(today) \in Int /\ (today + 1) * DayLen \in Int
  BY <1>1, LastMidnightIs
\* A step that leaves the clock and the launch alone.
<1>3. ASSUME frames' \subseteq frames, UNCHANGED <<clock, left, span, today>>,
             pc' = pc \/ pc' \notin {"chosen", "prepared"},
             proc' = proc \/ proc' \notin {"connecting", "streaming"}
      PROVE  OverrunInv'
  BY <1>3 DEF OverrunInv, LastMidnight
<1>4. CASE PassTime
  <2>1. clock' = clock + 1 /\ UNCHANGED <<span, today>> /\ pc' \in {pc, "top"}
    BY <1>4 DEF PassTime
  <2>2. pc' \in {"chosen", "prepared"} =>
          left' >= 0 /\ clock' + left' < (today' + 1) * DayLen + MaxSetup
    <3> SUFFICES ASSUME pc' \in {"chosen", "prepared"}
                 PROVE  left' >= 0 /\ clock' + left' < (today' + 1) * DayLen + MaxSetup
      OBVIOUS
    <3>1. pc \in {"chosen", "prepared"} /\ proc \notin {"connecting", "streaming"}
      BY <2>1 DEF GrabberRuns
    <3>2. left > 0 /\ left' = left - 1
      BY <1>4, <3>1 DEF PassTime
    <3> QED
      BY <1>1, <1>2, <2>1, <3>1, <3>2 DEF OverrunInv
  <2>3. proc' = "connecting" =>
          left' >= 0 /\ clock' + left' + span' <= LastMidnight(today') + MaxConnect
    <3> SUFFICES ASSUME proc' = "connecting"
                 PROVE  left' >= 0 /\ clock' + left' + span' <= LastMidnight(today') + MaxConnect
      OBVIOUS
    <3>1. proc = "connecting" /\ left > 0 /\ left' = left - 1
      BY <1>4 DEF PassTime, GrabberRuns
    <3> QED
      BY <1>1, <1>2, <2>1, <3>1 DEF OverrunInv
  <2>4. proc' = "streaming" => clock' + left' <= LastMidnight(today') + MaxConnect
    <3> SUFFICES ASSUME proc' = "streaming"
                 PROVE  clock' + left' <= LastMidnight(today') + MaxConnect
      OBVIOUS
    <3>1. proc = "streaming" /\ left' = left - 1
      BY <1>4 DEF PassTime, GrabberRuns
    <3> QED
      BY <1>1, <1>2, <2>1, <3>1 DEF OverrunInv
  <2>5. \A f \in frames' : f.at < LastMidnight(f.day) + MaxConnect
    <3>1. CASE UNCHANGED frames
      BY <3>1 DEF OverrunInv
    <3>2. CASE FrameWritten
      <4>1. PICK f \in Frame : /\ f.day = today /\ f.at = clock
                               /\ \A g \in frames' : g = f \/ g \in frames
        BY <3>2, FrameTyped
      <4>2. clock < LastMidnight(today) + MaxConnect
        <5>1. proc = "streaming" /\ left > 0
          BY <3>2, FrameTyped DEF GrabberRuns, GrabberTypeOK
        <5> QED
          BY <1>1, <1>2, <5>1 DEF OverrunInv
      <4> QED
        BY <4>1, <4>2 DEF OverrunInv
    <3> QED
      BY <1>4, <3>1, <3>2 DEF PassTime
  <2> QED
    BY <2>2, <2>3, <2>4, <2>5 DEF OverrunInv, LastMidnight
<1>5. CASE Connect
  <2>1. /\ proc = "connecting" /\ proc' = "streaming" /\ left' = span
        /\ UNCHANGED <<clock, span, today, frames>> /\ pc' = "supervise"
    BY <1>5 DEF Connect, GrabberRuns
  <2>2. clock + span <= LastMidnight(today) + MaxConnect
    BY <1>1, <1>2, <2>1 DEF OverrunInv
  <2> QED
    BY <2>1, <2>2 DEF OverrunInv, LastMidnight
<1>6. CASE ChooseDay
  <2>1. /\ today' = DayOf(clock) /\ left' = MaxSetup /\ UNCHANGED <<clock, frames, proc>>
        /\ pc = "top"
    BY <1>6 DEF ChooseDay
  <2>2. clock < (DayOf(clock) + 1) * DayLen
    BY <1>1, DaysAndSeconds, LaterDays
  <2>3. clock + MaxSetup < (DayOf(clock) + 1) * DayLen + MaxSetup
    BY <1>1, <2>2, DaysAndSeconds, LaterDays
  <2>4. proc' \notin {"connecting", "streaming"}
    BY <2>1 DEF GrabberRuns
  <2> QED
    BY <1>1, <2>1, <2>3, <2>4 DEF OverrunInv, LastMidnight
<1>7. CASE Launch
  <2>1. pc = "prepared" /\ pc' \in {"supervise", "ended"} /\ UNCHANGED <<clock, frames, today>>
    BY <1>7 DEF Launch
  <2>2. CASE proc' = "connecting" /\ left' = MaxConnect /\ span' = ToMidnight
    <3>1. clock + left < (today + 1) * DayLen + MaxSetup /\ left >= 0
      BY <2>1 DEF OverrunInv
    <3>2. clock + ToMidnight <= LastMidnight(today)
      BY <1>1, <1>2, <3>1, LaunchInTime
    <3>3. clock + MaxConnect + ToMidnight <= LastMidnight(today) + MaxConnect
      BY <1>1, <1>2, <3>2, SpanTyped DEF GrabberRuns
    <3> QED
      BY <1>1, <2>1, <2>2, <3>3 DEF OverrunInv, LastMidnight
  <2>3. CASE proc' = "failed"
    BY <2>1, <2>3 DEF OverrunInv, LastMidnight
  <2> QED
    BY <1>7, <2>2, <2>3 DEF Launch
<1>8. ASSUME NEW d \in dirs, RemoveDay(d) PROVE OverrunInv'
  <2>1. frames' \subseteq frames /\ UNCHANGED <<clock, left, span, today, pc, proc>>
    BY <1>8 DEF RemoveDay
  <2> QED
    BY <1>3, <2>1
<1>9. CASE Die \/ EditConfig \/ PausesOrResumes \/ RecordCadences \/ Start \/ RequestStop
  <2>1. /\ UNCHANGED <<clock, left, span, today, frames>>
        /\ pc' = pc \/ pc' \notin {"chosen", "prepared"}
        /\ proc' = proc \/ proc' \notin {"connecting", "streaming"}
    BY <1>9 DEF Die, EditConfig, PausesOrResumes, RecordCadences, Start, RequestStop
  <2> QED
    BY <1>3, <2>1
<1>10. CASE Kill \/ ThreadEnds \/ SuperviseSees \/ SuperviseEnds \/ Discard
  <2>1. /\ UNCHANGED <<clock, left, span, today, frames>>
        /\ pc' = pc \/ pc' \notin {"chosen", "prepared"}
        /\ proc' = proc \/ proc' \notin {"connecting", "streaming"}
    BY <1>10 DEF Kill, ThreadEnds, SuperviseSees, SuperviseEnds, Discard, AfterTheRun
  <2> QED
    BY <1>3, <2>1
<1>11. CASE PrepareDay
  <2>1. UNCHANGED <<clock, left, span, today, frames, proc>> /\ pc = "chosen"
    BY <1>11 DEF PrepareDay
  <2> QED
    BY <2>1 DEF OverrunInv, LastMidnight
<1>12. CASE UNCHANGED grabberVars
  <2>1. UNCHANGED <<clock, left, span, today, frames, pc, proc>>
    BY <1>12 DEF grabberVars
  <2> QED
    BY <1>3, <2>1
<1> QED
  BY <1>4, <1>5, <1>6, <1>7, <1>8, <1>9, <1>10, <1>11, <1>12 DEF GrabberNext

LEMMA OverrunHolds == GrabberSpec => [](GrabberRuns /\ OverrunInv)
<1>1. GrabberInit => OverrunInv
  BY DEF GrabberInit, OverrunInv
<1> QED
  BY <1>1, GrabberStarts, GrabberStep, OverrunStep, PTL DEF GrabberSpec

\* Whatever midnight a launch is caught by, no frame is filed under a day that was
\* over for more than the day after it and the time to connect.
THEOREM OverrunIsBounded == GrabberSpec => []OverrunBounded
<1>1. GrabberRuns /\ OverrunInv => OverrunBounded
  <2> SUFFICES ASSUME GrabberRuns, OverrunInv, NEW f \in frames
               PROVE  f.at < (f.day + 2) * DayLen + MaxConnect
    BY DEF OverrunBounded
  <2>1. f.day \in Int /\ f.at \in Nat /\ MaxConnect \in Nat /\ DayLen \in Nat
    BY GrabberAssumption DEF GrabberRuns, GrabberTypeOK, Frame
  <2>2. f.at < LastMidnight(f.day) + MaxConnect
    BY DEF OverrunInv
  <2>3. LastMidnight(f.day) <= (f.day + 2) * DayLen
    BY <2>1, LastMidnightIs, LaterDays
  <2> QED
    BY <2>1, <2>2, <2>3, LastMidnightIs, LaterDays
<1> QED
  BY <1>1, OverrunHolds, PTL
===============================================================================
