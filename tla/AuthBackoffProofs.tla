-------------------------- MODULE AuthBackoffProofs ---------------------------
(***************************************************************************)
(* Proofs about the authentication back-off, for every value of its        *)
(* constants.  The inductive invariant is LadderInv with the pacing of the *)
(* refusals: while nobody steps the clock, a refusal's age and what is     *)
(* left of the silence add up to the whole silence.  The length of a       *)
(* silence needs neither, only what a step of the clock adds to it.  And,  *)
(* of the watch that reads what the back-off publishes, that it tells of   *)
(* an incident once.                                                       *)
(***************************************************************************)
EXTENDS CredentialWatch, FiniteSetTheorems, TLAPS

\* The deadline of no silence is over.
LEMMA LongPastIsPast == LongPast \in Int /\ LongPast <= 0
<1>1. StepSize \in Nat /\ MaxSteps \in Nat
  BY BackoffAssumption
<1>2. StepSize * MaxSteps \in Nat
  BY <1>1
<1> QED
  BY <1>2 DEF LongPast

LEMMA CapIsNat == SilenceCap \in Nat
  BY LongPastIsPast, BackoffAssumption DEF SilenceCap

\* What is left of a silence after one more tick.
LEMMA LeftIsOneLess ==
  ASSUME quiet \in Int
  PROVE  Left \in Int /\ Left >= quiet - 1 /\ (quiet <= 0 => Left <= 0)
BY LongPastIsPast DEF Left, Greater

\* Every refusal grows older by a tick.
LEMMA AgedByOne ==
  ASSUME refusals \subseteq 0..AuthRetry
  PROVE  /\ Aged \subseteq 1..AuthRetry
         /\ \A a \in Aged : a - 1 \in refusals
BY BackoffAssumption DEF Aged

\* An incident that is over, in types.
LEMMA ClearedTyped ==
  ASSUME Cleared
  PROVE  /\ errClass' \in Classes \cup {NoError}
         /\ errTicks' \in 0..AuthStrikes
         /\ backedOff' \in BOOLEAN /\ confirmed' \in BOOLEAN
         /\ quiet' \in Int
<1>1. errTicks' \in 0..AuthStrikes
  BY BackoffAssumption DEF Cleared
<1>2. quiet' \in Int
  BY LongPastIsPast DEF Cleared
<1>3. backedOff' \in BOOLEAN /\ confirmed' \in BOOLEAN
  BY DEF Cleared
<1> QED
  BY <1>1, <1>2, <1>3 DEF Cleared

\* The daemon starts with nothing known about the camera.
LEMMA TypeCorrectInit == Init => TypeOK
<1> SUFFICES ASSUME Init PROVE TypeOK
  OBVIOUS
<1>1. quiet \in Int
  BY LongPastIsPast DEF Init
<1>2. errTicks \in 0..AuthStrikes /\ steps \in 0..MaxSteps
      /\ silence \in 0..SilenceCap
  BY BackoffAssumption, CapIsNat DEF Init
<1>3. refusals \subseteq 0..AuthRetry
  BY DEF Init
<1> QED
  BY <1>1, <1>2, <1>3 DEF Init, TypeOK

\* A rung is a rung.
LEMMA ClimbTyped ==
  ASSUME NEW b \in BOOLEAN, NEW c \in BOOLEAN, NEW n \in Int, NEW l \in Int,
         Climb(b, c, n, l)
  PROVE  backedOff' \in BOOLEAN /\ confirmed' \in BOOLEAN /\ quiet' \in Int
<1>1. backedOff' \in BOOLEAN /\ confirmed' \in BOOLEAN
  BY Zenon DEF Climb
<1>2. quiet' \in Int
  BY BackoffAssumption DEF Climb
<1> QED
  BY <1>1, <1>2

LEMMA TypeCorrectStep == TypeOK /\ [Next]_vars => TypeOK'
<1> SUFFICES ASSUME TypeOK, [Next]_vars PROVE TypeOK'
  OBVIOUS
<1>1. Left \in Int /\ LongPast \in Int
  BY LeftIsOneLess, LongPastIsPast DEF TypeOK
<1>2. Aged \subseteq 0..AuthRetry
  BY AgedByOne DEF TypeOK
<1>3. 0 \in 0..AuthRetry /\ 1 \in 0..AuthStrikes /\ AuthStrikes \in 0..AuthStrikes
  BY BackoffAssumption
<1>4. Lesser(silence + 1, SilenceCap) \in 0..SilenceCap
  BY CapIsNat DEF TypeOK, Lesser
<1>5. Lesser(errTicks + 1, AuthStrikes) \in 0..AuthStrikes
  BY BackoffAssumption DEF TypeOK, Lesser
<1>6. CASE CameraChanges
  BY <1>6 DEF TypeOK, CameraChanges, ladder, history
<1>7. CASE TogglePause
  BY <1>7 DEF TypeOK, TogglePause, ladder, history
<1>8. CASE StartDaemon
  <2>1. refusals' \subseteq 0..AuthRetry /\ silence' \in 0..SilenceCap
    BY <1>8, BackoffAssumption, CapIsNat DEF StartDaemon
  <2> QED
    BY <2>1, <1>8, ClearedTyped DEF TypeOK, StartDaemon
<1>9. CASE StopDaemon
  BY <1>9 DEF TypeOK, StopDaemon, ladder, history
<1>10. CASE StepClock
  <2>1. quiet' \in Int
    BY <1>10, <1>1, BackoffAssumption DEF TypeOK, StepClock, Greater
  <2>2. steps' \in 0..MaxSteps
    BY <1>10, BackoffAssumption DEF TypeOK, StepClock
  <2> QED
    BY <2>1, <2>2, <1>10 DEF TypeOK, StepClock, history
<1>11. CASE Attempt
  <2>1. silence' \in 0..SilenceCap
    BY <1>11, CapIsNat DEF Attempt
  <2>2. CASE Succeed
    BY <2>1, <2>2, <1>11, ClearedTyped DEF TypeOK, Attempt, Succeed
  <2>3. CASE FailAgain
    <3>1. backedOff' \in BOOLEAN /\ confirmed' \in BOOLEAN /\ quiet' \in Int
      BY <2>3, <1>1, <1>5, ClimbTyped DEF TypeOK, FailAgain
    <3>2. refusals' \subseteq 0..AuthRetry
      BY <2>3, <1>2, <1>3 DEF FailAgain
    <3>3. errTicks' \in 0..AuthStrikes /\ errClass' \in Classes \cup {NoError}
      BY <2>3, <1>5 DEF TypeOK, FailAgain
    <3> QED
      BY <3>1, <3>2, <3>3, <2>1, <1>11 DEF TypeOK, Attempt
  <2>4. CASE FailAnew
    <3>1. backedOff' \in BOOLEAN /\ confirmed' \in BOOLEAN /\ quiet' \in Int
      <4>1. CASE Climb(FALSE, FALSE, 1, LongPast)
        <5>1. FALSE \in BOOLEAN /\ 1 \in Int
          OBVIOUS
        <5> HIDE DEF LongPast
        <5> QED
          BY ONLY <5>1, <4>1, <1>1, ClimbTyped, Zenon
      <4>2. CASE backedOff' = FALSE /\ confirmed' = FALSE /\ quiet' = LongPast
        BY <4>2, <1>1
      <4> QED
        BY <4>1, <4>2, <2>4 DEF FailAnew
    <3>2. refusals' \subseteq 0..AuthRetry
      BY <2>4, <1>3 DEF FailAnew
    <3>3. errTicks' \in 0..AuthStrikes /\ errClass' \in Classes \cup {NoError}
      BY <2>4, <1>3 DEF TypeOK, FailAnew
    <3> QED
      BY <3>1, <3>2, <3>3, <2>1, <1>11 DEF TypeOK, Attempt
  <2> QED
    BY <2>2, <2>3, <2>4, <1>11 DEF Attempt
<1>12. CASE Withhold
  <2>1. silence' \in 0..SilenceCap
    BY <1>12, <1>4, CapIsNat DEF Withhold
  <2> QED
    BY <2>1, <1>12, <1>1, <1>2 DEF TypeOK, Withhold
<1>13. CASE UNCHANGED vars
  BY <1>13 DEF TypeOK, vars, ladder, history
<1> QED
  BY <1>6, <1>7, <1>8, <1>9, <1>10, <1>11, <1>12, <1>13 DEF Next

\* The back-off's state keeps its types.
THEOREM TypeCorrect == Spec => []TypeOK
BY TypeCorrectInit, TypeCorrectStep, PTL DEF Spec

-------------------------------------------------------------------------------
(* The ladder.                                                             *)

\* Climbing keeps the ladder a ladder: a first refusal, or one more of an
\* incident of refusals, with `n` failed ticks behind it.
LEMMA ClimbKeepsRungs ==
  ASSUME NEW b \in BOOLEAN, NEW c \in BOOLEAN, NEW n \in Int, NEW l \in Int,
         c => b, Climb(b, c, n, l)
  PROVE  /\ confirmed' => backedOff'
         /\ backedOff' => b \/ n >= AuthStrikes
         /\ ~backedOff' => quiet' = l
BY DEF Climb

LEMMA LadderInit == Init => LadderInv
BY LongPastIsPast DEF Init, LadderInv

LEMMA LadderStep == TypeOK /\ LadderInv /\ [Next]_vars => LadderInv'
<1> SUFFICES ASSUME TypeOK, LadderInv, [Next]_vars PROVE LadderInv'
  OBVIOUS
<1>1. Left \in Int /\ (quiet <= 0 => Left <= 0)
  BY LeftIsOneLess DEF TypeOK
<1>2. LongPast \in Int /\ LongPast <= 0
  BY LongPastIsPast
<1>3. errTicks \in Int /\ quiet \in Int /\ steps \in Int
      /\ backedOff \in BOOLEAN /\ confirmed \in BOOLEAN
  BY DEF TypeOK
<1>4. CASE CameraChanges
  BY <1>4 DEF LadderInv, CameraChanges, ladder, history
<1>5. CASE TogglePause
  BY <1>5 DEF LadderInv, TogglePause, ladder, history
<1>6. CASE StartDaemon
  BY <1>6, <1>2 DEF LadderInv, StartDaemon, Cleared
<1>7. CASE StopDaemon
  BY <1>7 DEF LadderInv, StopDaemon, ladder, history
<1>8. CASE StepClock
  <2>1. steps' # 0
    BY <1>8 DEF TypeOK, StepClock
  <2> QED
    BY <2>1, <1>8 DEF LadderInv, StepClock, history
<1>9. CASE Attempt
  <2>1. CASE Succeed
    BY <2>1, <1>2 DEF LadderInv, Succeed, Cleared
  <2>2. CASE FailAgain /\ camera = "auth"
    <3> DEFINE n == Lesser(errTicks + 1, AuthStrikes)
    <3>1. n \in Int /\ (errTicks >= AuthStrikes => n >= AuthStrikes)
      BY <1>3, BackoffAssumption DEF Lesser
    <3>2. /\ Climb(backedOff, confirmed, n, Left)
          /\ errTicks' = n /\ errClass' = "auth"
      BY <2>2 DEF FailAgain
    <3> HIDE DEF n
    <3>3. /\ confirmed' => backedOff'
          /\ backedOff' => backedOff \/ n >= AuthStrikes
          /\ ~backedOff' => quiet' = Left
      BY <3>1, <3>2, <1>1, <1>3, ClimbKeepsRungs DEF LadderInv
    <3>4. Climb(backedOff, confirmed, n, Left) /\ ~backedOff' => ~backedOff
      BY <1>3, Zenon DEF Climb
    <3>5. steps' = 0 /\ ~backedOff' => quiet' <= 0
      BY <3>2, <3>3, <3>4, <1>1, <1>9 DEF LadderInv, Attempt
    <3> QED
      BY <3>1, <3>2, <3>3, <3>5 DEF LadderInv
  <2>3. CASE FailAgain /\ camera # "auth"
    <3>1. refusals' = {}
      BY <2>3 DEF LadderInv, FailAgain, Aged
    <3> QED
      BY <3>1, <2>3, <1>1, <1>9 DEF LadderInv, FailAgain, Attempt
  <2>4. CASE FailAnew /\ camera = "auth"
    <3>1. FALSE \in BOOLEAN /\ 1 \in Int
      OBVIOUS
    <3>2. Climb(FALSE, FALSE, 1, LongPast) /\ errClass' = "auth" /\ errTicks' = 1
      BY <2>4 DEF FailAnew
    <3>3. /\ confirmed' => backedOff'
          /\ backedOff' => 1 >= AuthStrikes
          /\ ~backedOff' => quiet' = LongPast
      <4> HIDE DEF LongPast
      <4> QED
        BY ONLY <3>1, <3>2, <1>2, ClimbKeepsRungs, Zenon
    <3> QED
      BY <3>2, <3>3, <1>2 DEF LadderInv
  <2>5. CASE FailAnew /\ camera # "auth"
    BY <2>5, <1>2 DEF LadderInv, FailAnew
  <2> QED
    BY <2>1, <2>2, <2>3, <2>4, <2>5, <1>9 DEF Attempt
<1>10. CASE Withhold
  <2>1. refusals = {} => refusals' = {}
    BY <1>10 DEF Withhold, Aged
  <2> QED
    BY <2>1, <1>1, <1>10 DEF LadderInv, Withhold
<1>11. CASE UNCHANGED vars
  BY <1>11 DEF LadderInv, vars, ladder, history
<1> QED
  BY <1>4, <1>5, <1>6, <1>7, <1>8, <1>9, <1>10, <1>11 DEF Next

\* The ladder is climbed by refusals alone, whatever else the camera does.
THEOREM LadderOfRefusals == Spec => []LadderInv
BY TypeCorrectInit, TypeCorrectStep, LadderInit, LadderStep, PTL DEF Spec

-------------------------------------------------------------------------------
(* The pacing of the refusals.                                             *)

\* A rung reached by a refusal comes with the silence of that rung.
LEMMA ClimbSilences ==
  ASSUME NEW b \in BOOLEAN, NEW c \in BOOLEAN, NEW n \in Int, NEW l \in Int,
         Climb(b, c, n, l)
  PROVE  /\ confirmed' => quiet' = AuthRetry
         /\ backedOff' /\ ~confirmed' => quiet' = AuthPause
BY DEF Climb

LEMMA PacingInit == Init => PacingInv
BY DEF Init, PacingInv

\* The silence of a rung suits every set of refusals.
LEMMA FreshSilencePaces ==
  ASSUME refusals' \subseteq 0..AuthRetry,
         confirmed' => quiet' = AuthRetry,
         backedOff' /\ ~confirmed' => quiet' = AuthPause
  PROVE  PacingInv'
<1>1. ASSUME NEW a \in refusals' PROVE a \in Nat
  BY BackoffAssumption
<1>2. ASSUME NEW a \in Nat PROVE a + AuthPause >= AuthPause /\ a + AuthRetry >= AuthRetry
  BY BackoffAssumption
<1> QED
  BY <1>1, <1>2 DEF PacingInv

LEMMA PacingStep == TypeOK /\ TypeOK' /\ LadderInv /\ PacingInv /\ [Next]_vars => PacingInv'
<1> SUFFICES ASSUME TypeOK, TypeOK', LadderInv, PacingInv, [Next]_vars PROVE PacingInv'
  OBVIOUS
<1>1. Left \in Int /\ Left >= quiet - 1
  BY LeftIsOneLess DEF TypeOK
<1>2. LongPast \in Int
  BY LongPastIsPast
<1>3. errTicks \in Int /\ quiet \in Int /\ steps \in Int
      /\ backedOff \in BOOLEAN /\ confirmed \in BOOLEAN
      /\ refusals' \subseteq 0..AuthRetry
  BY DEF TypeOK
<1>4. CASE CameraChanges
  BY <1>4 DEF PacingInv, CameraChanges, ladder, history
<1>5. CASE TogglePause
  BY <1>5 DEF PacingInv, TogglePause, ladder, history
<1>6. CASE StartDaemon
  BY <1>6 DEF PacingInv, StartDaemon, Cleared
<1>7. CASE StopDaemon
  BY <1>7 DEF PacingInv, StopDaemon, ladder, history
<1>8. CASE StepClock
  <2>1. steps' # 0
    BY <1>8 DEF TypeOK, StepClock
  <2> QED
    BY <2>1 DEF PacingInv
<1>9. CASE Attempt
  <2>1. CASE Succeed
    BY <2>1 DEF PacingInv, Succeed, Cleared
  <2>2. CASE FailAgain /\ camera = "auth"
    <3>1. Lesser(errTicks + 1, AuthStrikes) \in Int
      BY <1>3, BackoffAssumption DEF Lesser
    <3>2. Climb(backedOff, confirmed, Lesser(errTicks + 1, AuthStrikes), Left)
      BY <2>2 DEF FailAgain
    <3>3. /\ confirmed' => quiet' = AuthRetry
          /\ backedOff' /\ ~confirmed' => quiet' = AuthPause
      BY <3>1, <3>2, <1>1, <1>3, ClimbSilences
    <3> QED
      BY <3>3, <1>3, FreshSilencePaces
  <2>3. CASE FailAgain /\ camera # "auth"
    BY <2>3 DEF PacingInv, LadderInv, FailAgain
  <2>4. CASE FailAnew /\ camera = "auth"
    <3>1. FALSE \in BOOLEAN /\ 1 \in Int
      OBVIOUS
    <3>2. Climb(FALSE, FALSE, 1, LongPast)
      BY <2>4 DEF FailAnew
    <3>3. /\ confirmed' => quiet' = AuthRetry
          /\ backedOff' /\ ~confirmed' => quiet' = AuthPause
      <4> HIDE DEF LongPast
      <4> QED
        BY ONLY <3>1, <3>2, <1>2, ClimbSilences, Zenon
    <3> QED
      BY <3>3, <1>3, FreshSilencePaces
  <2>5. CASE FailAnew /\ camera # "auth"
    BY <2>5 DEF PacingInv, FailAnew
  <2> QED
    BY <2>1, <2>2, <2>3, <2>4, <2>5, <1>9 DEF Attempt
<1>10. CASE Withhold
  <2>1. /\ quiet' = Left /\ refusals' = Aged
        /\ steps' = steps /\ backedOff' = backedOff /\ confirmed' = confirmed
    BY <1>10 DEF Withhold
  <2>2. \A a \in Aged : a \in Int /\ a - 1 \in refusals
    BY AgedByOne DEF TypeOK
  <2>3. ASSUME NEW w \in Int, \A a \in refusals : a + quiet >= w
        PROVE  \A a \in Aged : a + Left >= w
    BY <2>2, <2>3, <1>1, <1>3
  <2>4. AuthPause \in Int /\ AuthRetry \in Int
    BY BackoffAssumption
  <2>5. steps = 0 /\ backedOff /\ ~confirmed => \A a \in Aged : a + Left >= AuthPause
    BY <2>3, <2>4 DEF PacingInv
  <2>6. steps = 0 /\ confirmed => \A a \in Aged : a + Left >= AuthRetry
    BY <2>3, <2>4 DEF PacingInv
  <2> HIDE DEF Left, Aged
  <2> QED
    BY <2>1, <2>5, <2>6 DEF PacingInv
<1>11. CASE UNCHANGED vars
  BY <1>11 DEF PacingInv, vars, ladder, history
<1> QED
  BY <1>4, <1>5, <1>6, <1>7, <1>8, <1>9, <1>10, <1>11 DEF Next

LEMMA BackoffInvariant == Spec => [](TypeOK /\ LadderInv /\ PacingInv)
<1>1. Init => TypeOK /\ LadderInv /\ PacingInv
  BY TypeCorrectInit, LadderInit, PacingInit
<1>2. TypeOK /\ LadderInv /\ PacingInv /\ [Next]_vars => (TypeOK /\ LadderInv /\ PacingInv)'
  BY TypeCorrectStep, LadderStep, PacingStep
<1> QED
  BY <1>1, <1>2, PTL DEF Spec

\* On any ladder, a refusal is confirmed only by one the whole pause later.
THEOREM ConfirmationWaits == Spec => ConfirmedAcrossPause
<1>1. ASSUME TypeOK, LadderInv, PacingInv, Attempt, ~confirmed, confirmed', steps = 0,
             NEW a \in refusals'
      PROVE  a = 0 \/ a >= AuthPause
  <2>1. quiet \in Int /\ Left \in Int /\ Left >= quiet - 1 /\ Left <= 0
    BY <1>1, LeftIsOneLess DEF TypeOK, Attempt
  <2>2. CASE FailAgain /\ camera = "auth"
    <3>1. backedOff
      BY <2>2, <1>1, BackoffAssumption DEF FailAgain, Climb
    <3>2. CASE a \in Aged
      <4>1. a \in Int /\ a - 1 \in refusals
        BY <3>2, <1>1, AgedByOne DEF TypeOK
      <4>2. (a - 1) + quiet >= AuthPause
        BY <4>1, <3>1, <1>1 DEF PacingInv
      <4> QED
        BY <4>1, <4>2, <2>1, BackoffAssumption
    <3> QED
      BY <3>2, <2>2, <1>1 DEF FailAgain
  <2>3. CASE FailAnew /\ camera = "auth"
    BY <2>3, <1>1 DEF FailAnew
  <2>4. CASE Succeed \/ camera # "auth"
    BY <2>4, <1>1 DEF Attempt, Succeed, Cleared, FailAgain, FailAnew
  <2> QED
    BY <2>2, <2>3, <2>4, <1>1 DEF Attempt
<1>2. TypeOK /\ LadderInv /\ PacingInv /\ [Next]_vars
        => [Attempt /\ ~confirmed /\ confirmed' /\ steps = 0
              => \A a \in refusals' : a = 0 \/ a >= AuthPause]_vars
  BY <1>1
<1> QED
  BY <1>2, BackoffInvariant, PTL DEF Spec, ConfirmedAcrossPause

\* On any ladder whose last silence covers the lockout window, a refusal after
\* the confirmation is the only one of its window.
THEOREM ConfirmedAttemptsAlone == Spec => AttemptsStandAlone
<1>1. ASSUME TypeOK, LadderInv, PacingInv, Attempt, confirmed, confirmed', steps = 0,
             NEW a \in refusals', a < Lockout
      PROVE  a = 0
  <2>1. quiet \in Int /\ Left \in Int /\ Left >= quiet - 1 /\ Left <= 0
    BY <1>1, LeftIsOneLess DEF TypeOK, Attempt
  <2>2. CASE FailAgain /\ camera = "auth"
    <3>1. CASE a \in Aged
      <4>1. a \in Int /\ a - 1 \in refusals
        BY <3>1, <1>1, AgedByOne DEF TypeOK
      <4>2. (a - 1) + quiet >= AuthRetry
        BY <4>1, <1>1 DEF PacingInv
      <4> QED
        BY <4>1, <4>2, <2>1, <1>1, BackoffAssumption
    <3> QED
      BY <3>1, <2>2, <1>1 DEF FailAgain
  <2>3. CASE FailAnew /\ camera = "auth"
    BY <2>3, <1>1 DEF FailAnew
  <2>4. CASE Succeed \/ camera # "auth"
    BY <2>4, <1>1 DEF Attempt, Succeed, Cleared, FailAgain, FailAnew, LadderInv
  <2> QED
    BY <2>2, <2>3, <2>4, <1>1 DEF Attempt
<1>2. TypeOK /\ LadderInv /\ PacingInv /\ [Next]_vars
        => [Attempt /\ confirmed /\ confirmed' /\ steps = 0
              => RecentRefusals' \subseteq {0}]_vars
  BY <1>1 DEF RecentRefusals
<1> QED
  BY <1>2, BackoffInvariant, PTL DEF Spec, AttemptsStandAlone

-------------------------------------------------------------------------------
(* The length of a silence.                                                *)

\* One more step of the clock allows one more StepSize.
LEMMA OneMoreStep ==
  ASSUME NEW n \in Nat
  PROVE  /\ n * StepSize \in Nat
         /\ (n + 1) * StepSize = n * StepSize + StepSize
BY BackoffAssumption

\* A tick that fetches leaves at most the longer silence to be kept.
LEMMA AttemptQuiets ==
  ASSUME TypeOK, Attempt
  PROVE  quiet' <= AuthRetry
<1>1. LongPast <= AuthRetry /\ Left <= AuthRetry /\ AuthPause <= AuthRetry
      /\ AuthRetry \in Int
  BY LongPastIsPast, LeftIsOneLess, BackoffAssumption DEF TypeOK, Attempt
<1>2. CASE Succeed
  BY <1>1, <1>2 DEF Succeed, Cleared
<1>3. CASE FailAgain
  BY <1>1, <1>3 DEF FailAgain, Climb
<1>4. CASE FailAnew
  BY <1>1, <1>4 DEF FailAnew, Climb
<1> QED
  BY <1>2, <1>3, <1>4 DEF Attempt

LEMMA SilenceInit == Init => SilenceInv
<1> SUFFICES ASSUME Init PROVE SilenceInv
  OBVIOUS
<1>1. steps * StepSize = 0
  BY BackoffAssumption DEF Init
<1> QED
  BY <1>1, LongPastIsPast, BackoffAssumption DEF Init, SilenceInv, SilenceBounded

LEMMA SilenceStep == TypeOK /\ SilenceInv /\ [Next]_vars => SilenceInv'
<1> SUFFICES ASSUME TypeOK, SilenceInv, [Next]_vars PROVE SilenceInv'
  OBVIOUS
<1>1. steps \in Nat /\ silence \in Nat /\ quiet \in Int /\ AuthRetry \in Nat \ {0}
      /\ StepSize \in Nat
  BY BackoffAssumption, CapIsNat DEF TypeOK
<1>2. PICK allowed \in Nat : allowed = steps * StepSize
  BY <1>1, OneMoreStep
<1>3. silence < AuthRetry + allowed /\ silence + quiet <= AuthRetry + allowed
  BY <1>2 DEF SilenceInv, SilenceBounded
\* It is enough to bound both against what the steps so far allow.
<1>4. ASSUME UNCHANGED steps, NEW s \in Int, NEW q \in Int, silence' = s, quiet' = q,
             s < AuthRetry + allowed, s + q <= AuthRetry + allowed
      PROVE  SilenceInv'
  BY <1>2, <1>4 DEF SilenceInv, SilenceBounded
<1>5. CASE CameraChanges \/ TogglePause \/ StopDaemon \/ UNCHANGED vars
  <2>1. UNCHANGED <<steps, silence, quiet>>
    BY <1>5 DEF CameraChanges, TogglePause, StopDaemon, vars, ladder, history
  <2> QED
    BY <2>1, <1>1, <1>3, <1>4
<1>6. CASE StartDaemon
  <2>1. UNCHANGED steps /\ silence' = 0 /\ quiet' = LongPast
    BY <1>6 DEF StartDaemon, Cleared
  <2> QED
    BY <2>1, <1>1, <1>2, <1>4, LongPastIsPast
<1>7. CASE StepClock
  <2>1. PICK q \in Int : /\ silence' = silence /\ steps' = steps + 1 /\ quiet' = q
                         /\ q <= quiet + StepSize \/ q <= 0
    <3>1. PICK d \in {StepSize, -StepSize} : quiet' = Greater(quiet + d, LongPast)
      BY <1>7 DEF StepClock
    <3> QED
      BY <3>1, <1>1, <1>7, LongPastIsPast DEF StepClock, Greater, history
  <2>2. (steps + 1) * StepSize = allowed + StepSize
    BY <1>1, <1>2, OneMoreStep
  <2>3. steps' * StepSize = allowed + StepSize
    BY <2>1, <2>2
  <2>4. silence < AuthRetry + (allowed + StepSize)
        /\ silence + q <= AuthRetry + (allowed + StepSize)
    BY <2>1, <1>1, <1>2, <1>3
  <2> QED
    BY <2>1, <2>3, <2>4 DEF SilenceInv, SilenceBounded
<1>8. CASE Attempt
  <2>1. PICK q \in Int : q <= AuthRetry /\ quiet' = q
    BY <1>8, AttemptQuiets, TypeCorrectStep DEF TypeOK
  <2>2. UNCHANGED steps /\ silence' = 0
    BY <1>8 DEF Attempt
  <2> QED
    BY <2>1, <2>2, <1>1, <1>2, <1>4
<1>9. CASE Withhold
  <2>1. Left \in Int /\ (Left <= 0 \/ Left = quiet - 1) /\ quiet' = Left /\ UNCHANGED steps
    BY <1>1, <1>9, LongPastIsPast DEF Withhold, Left, Greater
  <2>2. CASE paused
    <3>1. silence' = 0
      BY <2>2, <1>9 DEF Withhold
    <3>2. 0 + Left <= AuthRetry + allowed /\ 0 < AuthRetry + allowed
      BY <2>1, <1>1, <1>2, <1>3
    <3> QED
      BY <3>1, <3>2, <2>1, <1>4
  <2>3. CASE ~paused
    <3>1. Left > 0 /\ \E s \in Int : s <= silence + 1 /\ silence' = s
      BY <2>3, <1>1, <1>9, CapIsNat DEF Withhold, Lesser
    <3> QED
      BY <3>1, <2>1, <1>1, <1>2, <1>3, <1>4
  <2> QED
    BY <2>2, <2>3
<1> QED
  BY <1>5, <1>6, <1>7, <1>8, <1>9 DEF Next

\* On any ladder and under any steps of the clock, the back-off is silent for
\* less than AuthRetry and what the clock was set back by.
THEOREM SilenceIsBounded == Spec => []SilenceBounded
<1>1. SilenceInv => SilenceBounded
  BY DEF SilenceInv
<1> QED
  BY <1>1, TypeCorrectInit, TypeCorrectStep, SilenceInit, SilenceStep, PTL DEF Spec
-------------------------------------------------------------------------------
(* How many refusals a lockout window sees.                                *)

\* The silence under way ends when the refusals before it have left any window.
Paced == \A a \in refusals : a + quiet >= AuthRetry

\* Until the pause, a refusal for each strike; the refusal after it; and then only one
\* more for each step of the clock, which may end a silence before its time once:
\* the next refusal starts a silence that suits all of them.
HammerInv ==
  /\ ~backedOff => /\ Cardinality(refusals) <= errTicks
                   /\ errClass = "auth" => errTicks < AuthStrikes
  /\ backedOff /\ ~confirmed => Cardinality(refusals) <= AuthStrikes
  /\ confirmed =>
       Cardinality(RecentRefusals) <= AuthStrikes + steps + (IF Paced THEN 1 ELSE 0)

LEMMA RefusalsCounted ==
  ASSUME NEW S \in SUBSET (0..AuthRetry)
  PROVE  IsFiniteSet(S) /\ Cardinality(S) \in Nat
<1>1. IsFiniteSet(0..AuthRetry)
  BY FS_Interval, BackoffAssumption
<1> QED
  BY <1>1, FS_Subset, FS_CardinalityType

\* A set with one more element.
LEMMA OneMore ==
  ASSUME NEW S, IsFiniteSet(S), NEW x
  PROVE  /\ IsFiniteSet(S \cup {x}) /\ Cardinality(S \cup {x}) \in Nat
         /\ Cardinality(S \cup {x}) <= Cardinality(S) + 1
<1>1. IsFiniteSet(S \cup {x})
  BY FS_AddElement
<1>2. Cardinality(S) \in Nat /\ Cardinality(S \cup {x}) \in Nat
  BY <1>1, FS_CardinalityType
<1>3. Cardinality(S \cup {x}) = Cardinality(S) \/ Cardinality(S \cup {x}) = Cardinality(S) + 1
  BY FS_AddElement, Zenon
<1> QED
  BY <1>1, <1>2, <1>3

\* A part of a set.
LEMMA PartOfSet ==
  ASSUME NEW S, IsFiniteSet(S), NEW T, T \subseteq S
  PROVE  /\ IsFiniteSet(T) /\ Cardinality(T) \in Nat /\ Cardinality(T) <= Cardinality(S)
<1>1. T \in SUBSET S
  OBVIOUS
<1> QED
  BY <1>1, FS_Subset, FS_CardinalityType

\* Growing older makes no refusals.
LEMMA OlderAreNoMore ==
  ASSUME NEW S \in SUBSET (0..AuthRetry), NEW T, T \subseteq {a + 1 : a \in S}
  PROVE  IsFiniteSet(T) /\ Cardinality(T) \in Nat /\ Cardinality(T) <= Cardinality(S)
<1> DEFINE f == [t \in T |-> t - 1]
<1>1. S \subseteq Int
  BY BackoffAssumption
<1>2. \A t \in T : t \in Int /\ t - 1 \in S
  BY <1>1
<1>3. f \in Injection(T, S)
  BY <1>2 DEF Injection, IsInjective
<1>4. IsFiniteSet(S)
  BY RefusalsCounted
<1> HIDE DEF f
<1>5. IsFiniteSet(T) /\ Cardinality(T) <= Cardinality(S)
  BY <1>3, <1>4, FS_Injection
<1> QED
  BY <1>5, FS_CardinalityType

\* A tick makes no refusals recent, and one that is refused makes one.
LEMMA RecentGrowOlder ==
  ASSUME refusals \subseteq 0..AuthRetry
  PROVE  /\ Cardinality(Aged) \in Nat /\ Cardinality(Aged) <= Cardinality(refusals)
         /\ Cardinality(Aged \cup {0}) \in Nat
         /\ Cardinality(Aged \cup {0}) <= Cardinality(refusals) + 1
         /\ Cardinality({a \in Aged : a < Lockout}) <= Cardinality(RecentRefusals)
         /\ Cardinality({a \in Aged \cup {0} : a < Lockout}) \in Nat
         /\ Cardinality({a \in Aged \cup {0} : a < Lockout}) <= Cardinality(RecentRefusals) + 1
         /\ Cardinality(refusals) \in Nat /\ Cardinality(RecentRefusals) \in Nat
         /\ Cardinality(RecentRefusals) <= Cardinality(refusals)
<1>1. Aged \subseteq {a + 1 : a \in refusals}
  BY DEF Aged
<1> DEFINE R == RecentRefusals
           A == {a \in Aged : a < Lockout}
<1>2. R \in SUBSET (0..AuthRetry) /\ R \subseteq refusals
  BY DEF RecentRefusals
<1>3. A \subseteq {a + 1 : a \in R}
  BY BackoffAssumption DEF Aged, RecentRefusals
<1>4. /\ IsFiniteSet(Aged) /\ Cardinality(Aged) \in Nat
      /\ Cardinality(Aged) <= Cardinality(refusals)
  BY <1>1, OlderAreNoMore
<1>5. IsFiniteSet(A) /\ Cardinality(A) \in Nat /\ Cardinality(A) <= Cardinality(R)
  BY <1>2, <1>3, OlderAreNoMore
<1>6. /\ IsFiniteSet(refusals) /\ Cardinality(refusals) \in Nat /\ Cardinality(R) \in Nat
      /\ Cardinality(R) <= Cardinality(refusals)
  BY <1>2, RefusalsCounted, FS_Subset
<1>7. /\ Cardinality(Aged \cup {0}) \in Nat
      /\ Cardinality(Aged \cup {0}) <= Cardinality(Aged) + 1
  BY <1>4, OneMore
<1>8. /\ IsFiniteSet(A \cup {0}) /\ Cardinality(A \cup {0}) \in Nat
      /\ Cardinality(A \cup {0}) <= Cardinality(A) + 1
  <2> HIDE DEF A
  <2> QED
    BY <1>5, OneMore
<1>9. {a \in Aged \cup {0} : a < Lockout} \subseteq A \cup {0}
  OBVIOUS
<1>10. /\ Cardinality({a \in Aged \cup {0} : a < Lockout}) <= Cardinality(A \cup {0})
       /\ Cardinality({a \in Aged \cup {0} : a < Lockout}) \in Nat
  <2> HIDE DEF A
  <2> QED
    BY <1>8, <1>9, PartOfSet
<1> HIDE DEF R, A
<1> QED
  BY <1>4, <1>5, <1>6, <1>7, <1>8, <1>10 DEF R, A

LEMMA HammerStarts == Init => HammerInv
BY FS_EmptySet, BackoffAssumption DEF Init, HammerInv, NoError, Classes

\* A refused tick: the rung it climbs from, and what is then in the window.
LEMMA RefusedTick ==
  ASSUME TypeOK, LadderInv, HammerInv, Attempt, FailAgain, camera = "auth"
  PROVE  HammerInv'
<1> DEFINE n == Lesser(errTicks + 1, AuthStrikes)
<1>1. /\ Climb(backedOff, confirmed, n, Left) /\ errTicks' = n /\ errClass = "auth"
      /\ refusals' = Aged \cup {0} /\ steps' = steps /\ Left <= 0 /\ errClass' = errClass
  BY DEF FailAgain, Attempt
<1>2. refusals \subseteq 0..AuthRetry /\ errTicks \in 0..AuthStrikes /\ steps \in Nat
      /\ quiet \in Int /\ AuthStrikes \in Nat /\ AuthRetry \in Nat /\ Lockout <= AuthRetry
      /\ Lockout \in Nat
  BY BackoffAssumption DEF TypeOK
<1>3. n \in Nat /\ n <= AuthStrikes /\ (errTicks < AuthStrikes => n = errTicks + 1)
  BY <1>2 DEF Lesser
<1>4. RecentRefusals' = {a \in Aged \cup {0} : a < Lockout}
  BY <1>1 DEF RecentRefusals
<1> DEFINE N  == Cardinality(refusals)
           N1 == Cardinality(Aged \cup {0})
           R  == Cardinality(RecentRefusals)
           R1 == Cardinality({a \in Aged \cup {0} : a < Lockout})
<1>5. N \in Nat /\ N1 \in Nat /\ R \in Nat /\ R1 \in Nat /\ N1 <= N + 1 /\ R1 <= R + 1 /\ R <= N
  BY <1>2, RecentGrowOlder
<1>6. Cardinality(refusals') = N1 /\ Cardinality(RecentRefusals') = R1
  BY <1>1, <1>4
<1>7. /\ ~backedOff => N <= errTicks /\ errTicks < AuthStrikes
      /\ backedOff /\ ~confirmed => N <= AuthStrikes
      /\ confirmed => R <= AuthStrikes + steps + (IF Paced THEN 1 ELSE 0)
  BY <1>1 DEF HammerInv
<1>8. ASSUME quiet' = AuthRetry PROVE Paced'
  <2>1. refusals' \subseteq Nat
    BY <1>1, <1>2, AgedByOne
  <2> QED
    BY <1>2, <1>8, <2>1 DEF Paced
<1> HIDE DEF n, N, N1, R, R1
<1>9. CASE ~backedOff
  <2>1. ~confirmed
    BY <1>9 DEF LadderInv
  <2>2. N1 <= n
    BY <1>5, <1>7, <1>2, <1>3, <1>9
  <2>3. ~confirmed' /\ (~backedOff' => n < AuthStrikes)
    BY <1>1, <1>2, <1>3, <1>9, <2>1 DEF Climb
  <2> QED
    BY <1>5, <1>6, <1>1, <1>2, <1>3, <2>2, <2>3 DEF HammerInv
<1>10. CASE backedOff
  <2>1. backedOff' /\ confirmed' /\ quiet' = AuthRetry
    BY <1>1, <1>10 DEF Climb
  <2>2. Paced'
    BY <1>8, <2>1
  <2>3. R1 <= AuthStrikes + steps + 1
    <3>1. CASE ~confirmed
      BY <1>5, <1>7, <1>2, <1>10, <3>1
    <3>2. CASE confirmed /\ ~Paced
      BY <1>5, <1>7, <1>2, <3>2
    <3>3. CASE confirmed /\ Paced
      <4>1. \A a \in Aged : a >= AuthRetry
        <5>1. quiet <= 1
          BY <1>1, <1>2, LeftIsOneLess
        <5> QED
          BY <1>2, <3>3, <5>1, AgedByOne DEF Paced
      <4>2. RecentRefusals' \subseteq {0}
        BY <1>2, <1>4, <4>1, AgedByOne
      <4>3. IsFiniteSet({0}) /\ Cardinality({0}) = 1
        BY FS_Singleton
      <4>4. R1 <= 1
        BY <1>6, <4>2, <4>3, PartOfSet
      <4> QED
        BY <1>5, <1>2, <4>4
    <3> QED
      BY <3>1, <3>2, <3>3
  <2> QED
    BY <1>5, <1>6, <1>1, <1>2, <2>1, <2>2, <2>3 DEF HammerInv
<1> QED
  BY <1>9, <1>10 DEF TypeOK

LEMMA HammerStep == TypeOK /\ LadderInv /\ HammerInv /\ [Next]_vars => HammerInv'
<1> SUFFICES ASSUME TypeOK, LadderInv, HammerInv, [Next]_vars PROVE HammerInv'
  OBVIOUS
<1>1. /\ refusals \subseteq 0..AuthRetry /\ errTicks \in 0..AuthStrikes /\ steps \in Nat
      /\ quiet \in Int /\ AuthStrikes \in Nat \ {0} /\ AuthRetry \in Nat
  BY BackoffAssumption DEF TypeOK
<1>2. "auth" # NoError
  BY DEF NoError
<1>3. CASE UNCHANGED <<ladder, steps, refusals>>
  BY <1>3 DEF ladder, HammerInv, RecentRefusals, Paced
<1>4. CASE Cleared /\ refusals' = {}
  BY <1>1, <1>2, <1>4, FS_EmptySet DEF Cleared, HammerInv
<1>5. CASE StepClock
  <2>1. /\ UNCHANGED <<errClass, errTicks, backedOff, confirmed, refusals>>
        /\ steps' = steps + 1
    BY <1>5 DEF StepClock, history
  <2>2. RecentRefusals' = RecentRefusals
    BY <2>1 DEF RecentRefusals
  <2>3. Cardinality(RecentRefusals) \in Nat
    BY <1>1, RecentGrowOlder
  <2> QED
    BY <1>1, <2>1, <2>2, <2>3 DEF HammerInv
<1>6. CASE Withhold
  <2>1. /\ UNCHANGED <<errClass, errTicks, backedOff, confirmed, steps>>
        /\ quiet' = Left /\ refusals' = Aged
    BY <1>6 DEF Withhold
  <2>2. RecentRefusals' = {a \in Aged : a < Lockout}
    BY <2>1 DEF RecentRefusals
  <2>3. Paced => Paced'
    <3>1. \A a \in Aged : a \in Int /\ a - 1 \in refusals
      BY <1>1, AgedByOne
    <3>2. Left \in Int /\ Left >= quiet - 1
      BY <1>1, LeftIsOneLess
    <3> QED
      BY <1>1, <2>1, <3>1, <3>2 DEF Paced
  <2>4. /\ Cardinality(refusals') <= Cardinality(refusals)
        /\ Cardinality(RecentRefusals') <= Cardinality(RecentRefusals)
        /\ Cardinality(refusals') \in Nat /\ Cardinality(RecentRefusals') \in Nat
        /\ Cardinality(refusals) \in Nat /\ Cardinality(RecentRefusals) \in Nat
    <3>1. refusals' \subseteq 0..AuthRetry
      BY <1>1, <2>1, AgedByOne
    <3> QED
      BY <1>1, <2>1, <2>2, <3>1, RecentGrowOlder, RefusalsCounted DEF RecentRefusals
  <2> QED
    BY <1>1, <2>1, <2>3, <2>4 DEF HammerInv
<1>7. CASE Attempt /\ FailAgain
  <2>1. CASE camera = "auth"
    BY <1>7, <2>1, RefusedTick
  <2>2. CASE camera # "auth"
    <3>1. /\ errClass' = errClass /\ errClass # "auth" /\ refusals' = Aged
          /\ UNCHANGED <<backedOff, confirmed>> /\ errTicks' \in Nat
      BY <1>1, <1>7, <2>2 DEF FailAgain, Lesser
    <3>2. refusals' = {}
      BY <3>1 DEF LadderInv, Aged
    <3>3. ~backedOff /\ ~confirmed
      BY <3>1 DEF LadderInv
    <3> QED
      BY <3>1, <3>2, <3>3, FS_EmptySet DEF HammerInv
  <2> QED
    BY <2>1, <2>2
<1>8. CASE Attempt /\ FailAnew
  <2>1. errClass' = camera /\ errTicks' = 1 /\ steps' = steps
    BY <1>8 DEF FailAnew, Attempt
  <2>2. CASE camera = "auth"
    <3>1. Climb(FALSE, FALSE, 1, LongPast) /\ refusals' = {0}
      BY <1>8, <2>2 DEF FailAnew
    <3>2. ~confirmed' /\ (~backedOff' => 1 < AuthStrikes)
      BY <1>1, <3>1 DEF Climb
    <3>3. Cardinality(refusals') = 1
      BY <3>1, FS_Singleton
    <3> QED
      BY <1>1, <2>1, <3>2, <3>3 DEF HammerInv
  <2>3. CASE camera # "auth"
    BY <1>8, <2>1, <2>3, FS_EmptySet DEF FailAnew, HammerInv
  <2> QED
    BY <2>2, <2>3
<1> QED
  BY <1>3, <1>4, <1>5, <1>6, <1>7, <1>8
  DEF Next, vars, history, CameraChanges, TogglePause, StartDaemon, StopDaemon, Attempt, Succeed

\* Of the refusals of one incident, AuthStrikes + 1 at the most fall into a window of a
\* lockout's length, and one more for each step of the clock; on any ladder.  An answer,
\* another failure or a restart ends the incident, and the count begins anew.
THEOREM CamerasAreNotHammered == Spec => []NoHammering
<1>1. TypeOK /\ HammerInv => NoHammering
  <2> SUFFICES ASSUME TypeOK, HammerInv PROVE NoHammering
    OBVIOUS
  <2>1. /\ refusals \subseteq 0..AuthRetry /\ errTicks \in 0..AuthStrikes /\ steps \in Nat
        /\ AuthStrikes \in Nat
    BY BackoffAssumption DEF TypeOK
  <2>2. /\ Cardinality(RecentRefusals) <= Cardinality(refusals)
        /\ Cardinality(refusals) \in Nat /\ Cardinality(RecentRefusals) \in Nat
    BY <2>1, RecentGrowOlder
  <2> QED
    BY <2>1, <2>2 DEF HammerInv, NoHammering
<1>2. Init => TypeOK /\ LadderInv /\ HammerInv
  BY TypeCorrectInit, LadderInit, HammerStarts
<1>3. TypeOK /\ LadderInv /\ HammerInv /\ [Next]_vars => (TypeOK /\ LadderInv /\ HammerInv)'
  BY TypeCorrectStep, LadderStep, HammerStep
<1> QED
  BY <1>1, <1>2, <1>3, PTL DEF Spec

-------------------------------------------------------------------------------
(* The watch.                                                              *)

\* The heartbeat runs after the daemon and never back: an incident that was told of
\* and is under way still is the one the heartbeat has.
HeartbeatInv ==
  /\ latest \in Nat /\ errSince \in {NoIncident, latest}
  /\ hbSince \in Nat /\ hbSince <= latest
  /\ hbSince # NoIncident /\ errSince = hbSince => confirmed
  /\ \A i \in Incidents : told[i] > 0 => i <= latest /\ (errSince = i => hbSince = i)

\* An incident that was told of more often than records were lost is on record, is
\* about to be, or can be read from no heartbeat any more.
ToldInv ==
  /\ told \in [Incidents -> Nat] /\ losses \in Nat
  /\ \A i \in Incidents :
       /\ told[i] <= 1 + losses
       /\ told[i] > losses =>
            \/ unsaved = i
            \/ unsaved = Idle /\ known = i
            \/ hbSince # i /\ errSince # i

WatchInv == TypeOK /\ LadderInv /\ HeartbeatInv /\ ToldInv

LEMMA IncidentsCounted == \A i \in Incidents : i \in Nat /\ i # NoIncident /\ i # Idle
BY WatchAssumption DEF Incidents, NoIncident, Idle

LEMMA WatchStarts == WInit => WatchInv
<1> SUFFICES ASSUME WInit PROVE WatchInv
  OBVIOUS
<1>1. TypeOK /\ LadderInv
  BY TypeCorrectInit, LadderInit DEF WInit
<1>2. HeartbeatInv /\ ToldInv
  BY DEF WInit, HeartbeatInv, ToldInv, NoIncident
<1> QED
  BY <1>1, <1>2 DEF WatchInv

\* Nothing but the end of the incident takes its confirmation back.
LEMMA StaysConfirmed ==
  ASSUME TypeOK, LadderInv, confirmed,
         CameraChanges \/ TogglePause \/ StartDaemon \/ StepClock \/ Tick,
         errClass' = errClass, errClass' # NoError
  PROVE  confirmed'
<1>1. CASE CameraChanges \/ TogglePause \/ StepClock \/ Withhold
  BY <1>1 DEF CameraChanges, TogglePause, StepClock, Withhold, ladder
<1>2. CASE StartDaemon
  BY <1>2 DEF StartDaemon, Cleared
<1>3. CASE Attempt
  <2>1. ~Succeed /\ ~FailAnew
    BY DEF Succeed, FailAnew, Cleared
  <2>2. FailAgain
    BY <1>3, <2>1 DEF Attempt
  <2>3. CASE camera = "auth"
    <3>1. Climb(backedOff, confirmed, Lesser(errTicks + 1, AuthStrikes), Left)
      BY <2>2, <2>3, Zenon DEF FailAgain
    <3> QED
      BY <3>1, Zenon DEF Climb
  <2>4. CASE camera # "auth"
    BY <2>2, <2>4 DEF FailAgain
  <2> QED
    BY <2>3, <2>4
<1> QED
  BY <1>1, <1>2, <1>3 DEF Tick

LEMMA DaemonKeepsWatch == ASSUME WatchInv, DaemonStep PROVE WatchInv'
<1>1. CameraChanges \/ TogglePause \/ StartDaemon \/ StepClock \/ Tick
  BY DEF DaemonStep
<1>2. TypeOK' /\ LadderInv'
  BY <1>1, TypeCorrectStep, LadderStep DEF WatchInv, Next, Tick
<1>3. UNCHANGED <<hbSince, known, unsaved, losses, told>>
  BY DEF DaemonStep, watch
<1>4. \/ errSince' = NoIncident /\ latest' = latest
      \/ latest' = latest + 1 /\ errSince' = latest'
      \/ errClass' = errClass /\ errClass' # NoError /\ UNCHANGED <<latest, errSince>>
  BY DEF DaemonStep, Since, incident
<1>5. HeartbeatInv'
  <2>1. latest \in Nat /\ hbSince \in Nat /\ hbSince <= latest
    BY DEF WatchInv, HeartbeatInv
  <2>2. CASE errSince' = NoIncident /\ latest' = latest
    BY <2>2, <1>3, IncidentsCounted DEF WatchInv, HeartbeatInv, NoIncident
  <2>3. CASE latest' = latest + 1 /\ errSince' = latest'
    BY <2>1, <2>3, <1>3, IncidentsCounted DEF WatchInv, HeartbeatInv, NoIncident
  <2>4. CASE errClass' = errClass /\ errClass' # NoError /\ UNCHANGED <<latest, errSince>>
    <3>1. confirmed => confirmed'
      BY <1>1, <2>4, StaysConfirmed DEF WatchInv
    <3> QED
      BY <2>4, <3>1, <1>3 DEF WatchInv, HeartbeatInv
  <2> QED
    BY <1>4, <2>2, <2>3, <2>4
<1>6. ToldInv'
  <2>1. \A i \in Incidents : told[i] > losses => errSince' # i \/ errSince' = errSince
    <3>1. ASSUME NEW i \in Incidents, told[i] > losses PROVE i <= latest /\ i # NoIncident
      BY <3>1, IncidentsCounted DEF WatchInv, HeartbeatInv, ToldInv
    <3>2. latest \in Nat /\ \A i \in Incidents : i \in Nat
      BY IncidentsCounted DEF WatchInv, HeartbeatInv
    <3> QED
      BY <1>4, <3>1, <3>2
  <2> QED
    BY <1>3, <2>1 DEF WatchInv, ToldInv
<1> QED
  BY <1>2, <1>5, <1>6 DEF WatchInv

\* A heartbeat is written, by a daemon that runs or that stops.
LEMMA HeartbeatKeepsWatch ==
  ASSUME WatchInv, WriteState \/ Halt
  PROVE  WatchInv'
<1>1. TypeOK' /\ LadderInv'
  <2>1. [Next]_vars
    BY DEF WriteState, Halt, Next
  <2> QED
    BY <2>1, TypeCorrectStep, LadderStep DEF WatchInv
<1>2. /\ UNCHANGED <<latest, errSince, known, unsaved, losses, told>>
      /\ confirmed' = confirmed
      /\ hbSince' = hbSince \/ hbSince' = Published
  BY DEF WriteState, Halt, StopDaemon, vars, ladder, incident, files, watch
<1>3. \/ Published = errSince /\ confirmed
      \/ Published = NoIncident /\ ~(errClass = "auth" /\ confirmed)
  BY DEF Published
<1>4. \A i \in Incidents : told[i] > 0 /\ errSince = i => Published = i
  <2>1. confirmed => errClass = "auth"
    BY DEF WatchInv, LadderInv
  <2> QED
    BY <1>3, <2>1, IncidentsCounted DEF WatchInv, HeartbeatInv
<1>5. HeartbeatInv'
  BY <1>2, <1>3, <1>4, IncidentsCounted DEF WatchInv, HeartbeatInv, NoIncident
<1>6. ToldInv'
  BY <1>2, <1>3, IncidentsCounted DEF WatchInv, ToldInv
<1> QED
  BY <1>1, <1>5, <1>6 DEF WatchInv

LEMMA WatchStep == WatchInv /\ [WNext]_wvars => WatchInv'
<1> SUFFICES ASSUME WatchInv, [WNext]_wvars PROVE WatchInv'
  OBVIOUS
<1>1. ASSUME UNCHANGED vars PROVE TypeOK' /\ LadderInv'
  BY <1>1, TypeCorrectStep, LadderStep DEF WatchInv
<1>2. CASE DownTime
  <2>1. UNCHANGED <<vars, confirmed, latest, errSince, hbSince, known, unsaved, losses, told>>
    BY <1>2 DEF DownTime, incident, watch, vars, ladder
  <2> QED
    BY <1>1, <2>1 DEF WatchInv, HeartbeatInv, ToldInv
<1>3. CASE Alarm
  <2>1. /\ unsaved = Idle /\ hbSince \notin {NoIncident, known} /\ unsaved' = hbSince
        /\ told' = [told EXCEPT ![hbSince] = @ + 1]
        /\ UNCHANGED <<vars, confirmed, latest, errSince, hbSince, known, losses>>
    BY <1>3 DEF Alarm, incident, files, vars, ladder
  <2>2. \A i \in Incidents : told'[i] = IF i = hbSince THEN told[i] + 1 ELSE told[i]
    BY <2>1 DEF WatchInv, ToldInv
  <2>3. told' \in [Incidents -> Nat]
    <3>1. told' = [i \in Incidents |-> IF i = hbSince THEN told[i] + 1 ELSE told[i]]
      BY <2>1 DEF WatchInv, ToldInv
    <3>2. \A i \in Incidents : told[i] \in Nat
      BY DEF WatchInv, ToldInv
    <3> QED
      BY <3>1, <3>2
  <2>4. HeartbeatInv'
    BY <2>1, <2>2, IncidentsCounted DEF WatchInv, HeartbeatInv, ToldInv
  <2>5. ToldInv'
    BY <2>1, <2>2, <2>3, IncidentsCounted DEF WatchInv, HeartbeatInv, ToldInv
  <2> QED
    BY <1>1, <2>1, <2>4, <2>5 DEF WatchInv
<1>4. CASE AllClear
  <2>1. /\ unsaved = Idle /\ hbSince = NoIncident /\ unsaved' = NoIncident
        /\ UNCHANGED <<vars, confirmed, latest, errSince, hbSince, known, losses, told>>
    BY <1>4 DEF AllClear, incident, files, vars, ladder
  <2>2. HeartbeatInv'
    BY <2>1 DEF WatchInv, HeartbeatInv
  <2>3. ToldInv'
    BY <2>1, IncidentsCounted DEF WatchInv, HeartbeatInv, ToldInv
  <2> QED
    BY <1>1, <2>1, <2>2, <2>3 DEF WatchInv
<1>5. CASE Save
  <2>1. /\ unsaved # Idle /\ known' = unsaved /\ unsaved' = Idle
        /\ UNCHANGED <<vars, confirmed, latest, errSince, hbSince, losses, told>>
    BY <1>5 DEF Save, incident, files, vars, ladder
  <2>2. HeartbeatInv'
    BY <2>1 DEF WatchInv, HeartbeatInv
  <2>3. ToldInv'
    BY <2>1, IncidentsCounted DEF WatchInv, ToldInv
  <2> QED
    BY <1>1, <2>1, <2>2, <2>3 DEF WatchInv
<1>6. CASE LoseRecord
  <2>1. /\ unsaved # Idle /\ unsaved' = Idle /\ losses' = losses + 1
        /\ UNCHANGED <<vars, confirmed, latest, errSince, hbSince, known, told>>
    BY <1>6 DEF LoseRecord, incident, files, vars, ladder
  <2>2. HeartbeatInv'
    BY <2>1 DEF WatchInv, HeartbeatInv
  <2>3. ToldInv'
    BY <2>1 DEF WatchInv, ToldInv
  <2> QED
    BY <1>1, <2>1, <2>2, <2>3 DEF WatchInv
<1>7. CASE UNCHANGED wvars
  <2>1. UNCHANGED <<vars, confirmed, latest, errSince, hbSince, known, unsaved, losses, told>>
    BY <1>7 DEF wvars, incident, files, watch, vars, ladder
  <2> QED
    BY <1>1, <2>1 DEF WatchInv, HeartbeatInv, ToldInv
<1> QED
  BY <1>2, <1>3, <1>4, <1>5, <1>6, <1>7, DaemonKeepsWatch, HeartbeatKeepsWatch DEF WNext

\* The watch tells of an incident once, but for records that were lost: for any
\* number of incidents, restarts and heartbeats between two runs of it.
THEOREM IncidentsAreToldOnce == WSpec => []NotifiedOnce
<1>1. WatchInv => NotifiedOnce
  BY DEF WatchInv, ToldInv, NotifiedOnce
<1> QED
  BY <1>1, WatchStarts, WatchStep, PTL DEF WSpec

\* An incident begins with an upset, the camera changed or the daemon was stopped: each
\* makes room for one more, which is taken when a daemon that runs has met the camera
\* as it is now.
Settled == up /\ camera \in {errClass, "ok"}

IncidentInv ==
  /\ WTypeOK
  /\ Settled \/ latest <= upsets
  /\ confirmed => errSince \in proven
  /\ hbSince # NoIncident => hbSince \in proven
  /\ \A i \in {known, unsaved} : i \in Incidents => told[i] > 0

\* The incident under way is the latest there was.
IncidentNamed ==
  /\ errSince \in {NoIncident, latest}
  /\ errSince = NoIncident <=> errClass = NoError

LEMMA IncidentsThereAre ==
  ASSUME NEW n \in Nat, n <= MaxUpsets + 1
  PROVE  n \in Incidents \cup {NoIncident}
BY WatchAssumption DEF Incidents, NoIncident

LEMMA NoClassIsNone == NoError \notin Classes /\ "ok" \notin Classes /\ "ok" # NoError
BY BackoffAssumption DEF NoError, Classes

LEMMA IncidentStarts == WInit => IncidentInv
<1> SUFFICES ASSUME WInit PROVE IncidentInv
  OBVIOUS
<1>1. TypeOK
  BY TypeCorrectInit DEF WInit
<1>2. StaleAfter + 1 \in 0..(StaleAfter + 1) /\ 0 \in 0..MaxUpsets /\ 0 \in 0..MaxLosses
  BY WatchAssumption
<1>3. told \in [Incidents -> Nat]
  BY DEF WInit
<1>4. hbAge \in 0..(StaleAfter + 1) /\ upsets \in 0..MaxUpsets /\ losses \in 0..MaxLosses
  BY <1>2 DEF WInit
<1>5. latest \in 0..(upsets + 1)
  BY DEF WInit, NoIncident
<1>6. errClass = NoError
  BY DEF WInit, Init
<1>7. WTypeOK
  BY <1>1, <1>3, <1>4, <1>5, <1>6 DEF WInit, WTypeOK
<1> QED
  BY <1>7, IncidentsCounted DEF WInit, Init, IncidentInv, NoIncident, Idle

\* What a step of the daemon does to the count of the incidents.
LEMMA DaemonCounts ==
  ASSUME IncidentInv, DaemonStep
  PROVE  /\ upsets' \in 0..MaxUpsets /\ latest' \in 0..(upsets' + 1) /\ IncidentNamed'
         /\ Settled' \/ latest' <= upsets'
<1>1. /\ latest \in Nat /\ upsets \in Nat /\ upsets <= MaxUpsets /\ MaxUpsets \in Nat
      /\ latest <= upsets + 1 /\ (Settled \/ latest <= upsets)
  BY WatchAssumption DEF IncidentInv, WTypeOK
\* A step that leaves the class as it is, or ends the incident, begins none.
<1>2. ASSUME errClass' \in {errClass, NoError} PROVE latest' = latest /\ IncidentNamed'
  BY <1>2 DEF DaemonStep, Since, incident, IncidentInv, WTypeOK, IncidentNamed
<1>3. CASE CameraChanges /\ upsets' = upsets + 1
  <2>1. errClass' = errClass /\ upsets < MaxUpsets
    BY <1>1, <1>3 DEF DaemonStep, CameraChanges, ladder
  <2>2. latest' = latest /\ IncidentNamed'
    BY <1>2, <2>1
  <2> QED
    BY <1>1, <1>3, <2>1, <2>2
<1>4. CASE (TogglePause \/ StepClock \/ Withhold) /\ upsets' = upsets
  <2>1. UNCHANGED <<up, camera, errClass>>
    BY <1>4 DEF TogglePause, StepClock, Withhold, ladder
  <2>2. latest' = latest /\ IncidentNamed' /\ (Settled => Settled')
    BY <1>2, <2>1 DEF Settled
  <2> QED
    BY <1>1, <1>4, <2>2
<1>5. CASE StartDaemon /\ upsets' = upsets
  <2>1. errClass' = NoError /\ ~Settled
    BY <1>5 DEF StartDaemon, Cleared, Settled
  <2>2. latest' = latest /\ IncidentNamed'
    BY <1>2, <2>1
  <2> QED
    BY <1>1, <1>5, <2>1, <2>2
<1>6. CASE Attempt /\ upsets' = upsets
  <2>1. up /\ UNCHANGED <<camera, up>>
    BY <1>6 DEF Attempt
  <2>2. CASE Succeed \/ FailAgain
    <3>1. errClass' \in {errClass, NoError} /\ Settled'
      BY <2>1, <2>2 DEF Succeed, Cleared, FailAgain, Settled
    <3>2. latest' = latest /\ IncidentNamed'
      BY <1>2, <3>1
    <3> QED
      BY <1>1, <1>6, <3>1, <3>2
  <2>3. CASE FailAnew
    <3>1. /\ errClass' = camera /\ camera # errClass /\ camera \in Classes
          /\ ~Settled /\ Settled'
      BY <2>1, <2>3 DEF FailAnew, Settled, IncidentInv, WTypeOK, TypeOK
    <3>2. latest' = latest + 1 /\ errSince' = latest' /\ errClass' # NoError
      BY <3>1, NoClassIsNone DEF DaemonStep, Since
    <3>3. IncidentNamed'
      BY <1>1, <3>2 DEF NoIncident, IncidentNamed
    <3> QED
      BY <1>1, <1>6, <3>1, <3>2, <3>3
  <2> QED
    BY <1>6, <2>2, <2>3 DEF Attempt
<1> QED
  BY <1>3, <1>4, <1>5, <1>6 DEF DaemonStep, Tick

LEMMA DaemonKeepsIncident ==
  ASSUME IncidentInv, LadderInv, DaemonStep
  PROVE  IncidentInv'
<1>1. CameraChanges \/ TogglePause \/ StartDaemon \/ StepClock \/ Tick
  BY DEF DaemonStep
<1>2. TypeOK' /\ LadderInv'
  BY <1>1, TypeCorrectStep, LadderStep DEF IncidentInv, WTypeOK, Next, Tick
<1>3. UNCHANGED <<hbRunning, hbSince, known, unsaved, losses, told>>
  BY DEF DaemonStep, watch
<1>4. confirmed' => errClass' # NoError
  BY <1>2 DEF LadderInv, NoError
<1>5. /\ upsets' \in 0..MaxUpsets /\ latest' \in 0..(upsets' + 1) /\ IncidentNamed'
      /\ Settled' \/ latest' <= upsets'
  BY DaemonCounts
<1>6. errSince' \in Incidents \cup {NoIncident}
  <2>1. PICK u \in 0..MaxUpsets : u = upsets'
    BY <1>5
  <2>2. PICK n \in 0..(u + 1) : n = latest'
    BY <1>5, <2>1
  <2>3. n \in Nat /\ n <= MaxUpsets + 1
    BY WatchAssumption
  <2>4. latest' \in Incidents \cup {NoIncident}
    BY <2>2, <2>3, IncidentsThereAre
  <2> QED
    BY <1>5, <2>4 DEF IncidentNamed
<1>7. proven' = proven \cup (IF confirmed' THEN {errSince'} ELSE {})
  BY DEF DaemonStep
<1>8. proven' \subseteq Incidents /\ (confirmed' => errSince' \in proven')
  BY <1>4, <1>5, <1>6, <1>7 DEF IncidentInv, WTypeOK, IncidentNamed
<1>9. hbAge' \in 0..(StaleAfter + 1)
  BY WatchAssumption DEF DaemonStep, IncidentInv, WTypeOK, Lesser
<1>10. WTypeOK'
  BY <1>2, <1>3, <1>5, <1>8, <1>9 DEF IncidentInv, WTypeOK, IncidentNamed
<1> QED
  BY <1>3, <1>5, <1>7, <1>8, <1>10 DEF IncidentInv

LEMMA HeartbeatKeepsIncident ==
  ASSUME IncidentInv, LadderInv, WriteState \/ Halt
  PROVE  IncidentInv'
<1>1. TypeOK'
  <2>1. [Next]_vars
    BY DEF WriteState, Halt, Next
  <2> QED
    BY <2>1, TypeCorrectStep DEF IncidentInv, WTypeOK
<1>2. /\ UNCHANGED <<latest, errSince, errClass, camera, confirmed, known, unsaved, losses, told,
                     proven>>
      /\ \/ hbRunning' \in BOOLEAN /\ hbSince' = Published /\ hbAge' = 0
         \/ UNCHANGED <<hbRunning, hbSince, hbAge>>
      /\ \/ up' = up /\ upsets' = upsets
         \/ upsets < MaxUpsets /\ upsets' = upsets + 1
  BY DEF WriteState, Halt, StopDaemon, vars, ladder, incident, files, watch
<1>3. Published \in proven \cup {NoIncident}
  BY DEF Published, IncidentInv
<1>4. hbSince' \in Incidents \cup {NoIncident} /\ (hbSince' # NoIncident => hbSince' \in proven)
  BY <1>2, <1>3 DEF IncidentInv, WTypeOK
<1>5. upsets' \in 0..MaxUpsets /\ latest' \in 0..(upsets' + 1)
  BY <1>2, WatchAssumption DEF IncidentInv, WTypeOK
<1>6. Settled' \/ latest' <= upsets'
  <2>1. /\ latest \in Nat /\ upsets \in Nat /\ latest <= upsets + 1
        /\ Settled \/ latest <= upsets
    BY WatchAssumption DEF IncidentInv, WTypeOK
  <2>2. CASE up' = up /\ upsets' = upsets
    <3>1. Settled => Settled'
      BY <1>2, <2>2 DEF Settled
    <3> QED
      BY <1>2, <2>1, <2>2, <3>1
  <2>3. CASE upsets' = upsets + 1
    BY <1>2, <2>1, <2>3
  <2> QED
    BY <1>2, <2>2, <2>3
<1>7. hbRunning' \in BOOLEAN /\ hbAge' \in 0..(StaleAfter + 1)
  BY <1>2, WatchAssumption DEF IncidentInv, WTypeOK
<1>8. WTypeOK'
  BY <1>1, <1>2, <1>4, <1>5, <1>7 DEF IncidentInv, WTypeOK
<1> QED
  BY <1>2, <1>4, <1>6, <1>8 DEF IncidentInv

LEMMA IncidentStep == IncidentInv /\ LadderInv /\ [WNext]_wvars => IncidentInv'
<1> SUFFICES ASSUME IncidentInv, LadderInv, [WNext]_wvars PROVE IncidentInv'
  OBVIOUS
<1>1. ASSUME UNCHANGED vars
      PROVE  TypeOK' /\ (Settled => Settled') /\ UNCHANGED <<errClass, confirmed>>
  BY <1>1, TypeCorrectStep DEF IncidentInv, WTypeOK, vars, ladder, Settled
<1>2. CASE DownTime
  <2>1. hbAge' \in 0..(StaleAfter + 1)
    BY <1>2, WatchAssumption DEF DownTime, IncidentInv, WTypeOK
  <2> QED
    BY <1>1, <1>2, <2>1 DEF DownTime, IncidentInv, WTypeOK, incident, watch
<1>3. CASE Alarm
  <2>1. hbSince \in Incidents /\ told[hbSince] \in Nat
    BY <1>3 DEF Alarm, IncidentInv, WTypeOK
  <2>2. told' = [i \in Incidents |-> IF i = hbSince THEN told[hbSince] + 1 ELSE told[i]]
    BY <1>3 DEF Alarm, IncidentInv, WTypeOK
  <2>3. told' \in [Incidents -> Nat]
    BY <2>1, <2>2 DEF IncidentInv, WTypeOK
  <2>4. \A i \in {known', unsaved'} : i \in Incidents => told'[i] > 0
    BY <1>3, <2>1, <2>2 DEF Alarm, IncidentInv, WTypeOK
  <2> QED
    BY <1>1, <1>3, <2>1, <2>3, <2>4 DEF Alarm, IncidentInv, WTypeOK, incident, files
<1>4. CASE AllClear
  BY <1>1, <1>4, IncidentsCounted DEF AllClear, IncidentInv, WTypeOK, incident, files
<1>5. CASE Save
  <2>1. unsaved \in Incidents \cup {NoIncident}
    BY <1>5 DEF Save, IncidentInv, WTypeOK
  <2> QED
    BY <1>1, <1>5, <2>1, IncidentsCounted DEF Save, IncidentInv, WTypeOK, incident, files
<1>6. CASE LoseRecord
  <2>1. losses' \in 0..MaxLosses
    BY <1>6, WatchAssumption DEF LoseRecord, IncidentInv, WTypeOK
  <2> QED
    BY <1>1, <1>6, <2>1, IncidentsCounted DEF LoseRecord, IncidentInv, WTypeOK, incident, files
<1>7. CASE UNCHANGED wvars
  BY <1>1, <1>7 DEF wvars, IncidentInv, WTypeOK, incident, files, watch
<1> QED
  BY <1>2, <1>3, <1>4, <1>5, <1>6, <1>7, DaemonKeepsIncident, HeartbeatKeepsIncident DEF WNext

LEMMA WatchHolds == WSpec => [](WatchInv /\ IncidentInv)
<1>1. WatchInv => LadderInv
  BY DEF WatchInv
<1> QED
  BY <1>1, WatchStarts, WatchStep, IncidentStarts, IncidentStep, PTL DEF WSpec

\* The watch keeps its types: no incident is begun without an upset.
THEOREM WatchTypeCorrect == WSpec => []WTypeOK
<1>1. IncidentInv => WTypeOK
  BY DEF IncidentInv
<1> QED
  BY <1>1, WatchHolds, PTL

\* Whatever the heartbeat and its age, who is told about was confirmed.
THEOREM AlarmsAreConfirmed == WSpec => AlarmIsConfirmed
<1>1. IncidentInv => [Alarm => hbSince \in proven]_wvars
  BY DEF IncidentInv, Alarm
<1> QED
  BY <1>1, WatchHolds, PTL DEF AlarmIsConfirmed

\* An all-clear is never sent of an incident that the daemon is still in.
THEOREM AllClearsAreTrue == WSpec => AllClearEndsIncident
<1>1. WatchInv /\ IncidentInv => [AllClear => ~up \/ errSince # known]_wvars
  <2> SUFFICES ASSUME WatchInv, IncidentInv, AllClear, errSince = known PROVE FALSE
    OBVIOUS
  <2>1. known \in Incidents /\ hbSince = NoIncident
    BY DEF AllClear, IncidentInv, WTypeOK
  <2>2. told[known] > 0
    BY <2>1 DEF IncidentInv
  <2> QED
    BY <2>1, <2>2, IncidentsCounted DEF WatchInv, HeartbeatInv
<1> QED
  BY <1>1, WatchHolds, PTL DEF AllClearEndsIncident
===============================================================================
