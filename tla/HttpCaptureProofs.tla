--------------------------- MODULE HttpCaptureProofs --------------------------
(***************************************************************************)
(* Theorems about HttpCapture for every set of intervals, every day length *)
(* and every time bound.                                                   *)
(***************************************************************************)
EXTENDS HttpCapture, TLAPS

-------------------------------------------------------------------------------
(* The arithmetic of the ticks, for every interval and every time.         *)

\* Integer division brackets its dividend; the one nonlinear fact below.
LEMMA DivBounds ==
  ASSUME NEW n \in Int, NEW i \in Nat \ {0}
  PROVE  /\ n \div i \in Int
         /\ (n \div i) * i <= n
         /\ n < ((n \div i) + 1) * i
  BY Z3

\* A multiple of the interval is on the grid, and so is the next one.
LEMMA MultipleOnGrid ==
  ASSUME NEW q \in Int, NEW i \in Nat \ {0}
  PROVE  OnGrid(q * i, i)
  BY Z3 DEF OnGrid

LEMMA GridIsPeriodic ==
  ASSUME NEW t \in Int, NEW i \in Nat \ {0}, OnGrid(t, i)
  PROVE  OnGrid(t + i, i)
<1> DEFINE q == t \div i
<1>1. q \in Int /\ q * i <= t /\ t < (q + 1) * i /\ t = q * i
  BY DivBounds, Z3 DEF OnGrid
<1> HIDE DEF q
<1>2. t + i = (q + 1) * i /\ q + 1 \in Int
  BY <1>1, Z3
<1>3. OnGrid((q + 1) * i, i)
  BY <1>2, MultipleOnGrid
<1> QED
  BY <1>2, <1>3

\* next_slot answers strictly after its argument, within one interval, on the
\* grid: a camera that re-anchors never fires the same second twice.
THEOREM NextSlotStrictlyAfter ==
  ASSUME NEW after \in Int, NEW i \in Nat \ {0}
  PROVE  /\ NextSlot(after, i) \in Int
         /\ NextSlot(after, i) > after
         /\ NextSlot(after, i) <= after + i
         /\ OnGrid(NextSlot(after, i), i)
<1> DEFINE q == after \div i
<1>1. q \in Int /\ q * i <= after /\ after < (q + 1) * i
  BY DivBounds
<1>0. NextSlot(after, i) = (q + 1) * i
  BY DEF NextSlot
<1> HIDE DEF q
<1>2. (q + 1) * i = q * i + i /\ q * i \in Int /\ q + 1 \in Int
  BY <1>1
<1>3. OnGrid((q + 1) * i, i)
  BY <1>2, MultipleOnGrid
<1> QED
  BY <1>0, <1>1, <1>2, <1>3

\* next_boundary answers at or after the clock, less than one interval later,
\* on the grid.
THEOREM NextBoundaryAtOrAfter ==
  ASSUME NEW now \in Int, NEW i \in Nat \ {0}
  PROVE  /\ NextBoundary(now, i) \in Int
         /\ NextBoundary(now, i) >= now
         /\ NextBoundary(now, i) < now + i
         /\ OnGrid(NextBoundary(now, i), i)
<1> DEFINE q == (-now) \div i
<1>1. q \in Int /\ q * i <= -now /\ -now < (q + 1) * i
  BY DivBounds
<1>0. NextBoundary(now, i) = (-q) * i
  BY DEF NextBoundary
<1> HIDE DEF q
<1>2. /\ (q + 1) * i = q * i + i /\ q * i \in Int
      /\ (-q) * i = -(q * i) /\ -q \in Int
  BY <1>1
<1>3. OnGrid((-q) * i, i)
  BY <1>2, MultipleOnGrid
<1> QED
  BY <1>0, <1>1, <1>2, <1>3

\* A resync is over in one step: the tick it settles on is one the loop waits
\* for or fires, never one it resyncs from again.
THEOREM ResyncConverges ==
  ASSUME NEW now \in Int, NEW i \in Nat \ {0}
  PROVE  TickPlan(NextBoundary(now, i), now, i) # "resync"
  BY NextBoundaryAtOrAfter DEF TickPlan

-------------------------------------------------------------------------------
(* The capture of a camera.                                                *)
\* Local time and seconds within the day are what TypeOK says.
LEMMA LocalTimes ==
  ASSUME NEW t \in Int
  PROVE  DayOf(t) \in Int /\ SecOf(t) \in Nat
<1>1. LocalTime(t) \in Int
  BY CaptureAssumption, CadenceAssumption DEF LocalTime
<1>2. /\ LocalTime(t) \div DayLen \in Int
      /\ LocalTime(t) % DayLen \in Nat
  BY <1>1, CaptureAssumption, CadenceAssumption
<1> QED
  BY <1>2 DEF DayOf, SecOf

LEMMA NoneIsAnInteger == NoDay \in Int /\ NoTick \in Int
  BY DEF NoDay, NoTick

\* begin_day always settles on one of the configured cadences.
LEMMA CadenceChosen ==
  ASSUME TypeOK, NEW d \in Int, NEW current \in Intervals
  PROVE  CadenceFor(d, current) \in Intervals
  BY DEF TypeOK, DiskTypeOK, CadenceFor, Unreadable

\* write_cadence leaves every marker well typed and its day among the days.
LEMMA MarkerWritten ==
  ASSUME TypeOK, NEW d \in Int, interval \in Intervals,
         WriteCadence(d, interval)
  PROVE  /\ DOMAIN marker' \subseteq DOMAIN marker \cup {d}
         /\ \A e \in DOMAIN marker' : marker'[e] \in Intervals
  BY DEF TypeOK, DiskTypeOK, WriteCadence

\* What the steps below need of TypeOK, one fact at a time.
LEMMA Typed ==
  ASSUME TypeOK
  PROVE  /\ clock \in Int /\ nextT \in Int /\ fireT \in Int
         /\ pc # "down" => interval \in Nat \ {0}
         /\ pc # "down" => interval \in Intervals
<1>1. clock \in Int
  BY DEF TypeOK
<1>2. nextT \in Int /\ fireT \in Int
  BY DEF TypeOK, ThreadTypeOK
<1>3. pc # "down" => interval \in Intervals
  BY DEF TypeOK, ThreadTypeOK
<1> QED
  BY <1>1, <1>2, <1>3, CaptureAssumption, CadenceAssumption

\* The types of what a running thread computes its ticks from.
LEMMA TickTyped ==
  ASSUME NEW t \in Int, NEW i \in Intervals
  PROVE  NextSlot(t, i) \in Int /\ NextBoundary(t, i) \in Int
<1>1. i \in Nat \ {0}
  BY CaptureAssumption, CadenceAssumption
<1> QED
  BY <1>1, NextSlotStrictlyAfter, NextBoundaryAtOrAfter

\* Every variable keeps its type, and a running thread has a cadence.
THEOREM TypeCorrect == Spec => []TypeOK
<1>1. ASSUME Init PROVE TypeOK
  <2>1. DiskTypeOK
    BY <1>1 DEF Init, DiskTypeOK
  <2>2. paused \in BOOLEAN /\ failing \in BOOLEAN /\ retried \in BOOLEAN
    BY <1>1 DEF Init
  <2>3. clock \in 0..MaxClock /\ steps \in 0..MaxSteps
    BY <1>1, CaptureAssumption, CadenceAssumption DEF Init
  <2>4. ThreadTypeOK
    BY <1>1, <2>2, NoneIsAnInteger DEF Init, ThreadTypeOK
  <2>5. cfg \in Intervals \cup {Unreadable}
    BY <1>1 DEF Init
  <2> QED
    BY <2>1, <2>2, <2>3, <2>4, <2>5 DEF TypeOK
<1>2. ASSUME TypeOK, [Next]_vars PROVE TypeOK'
  <2> USE <1>2
  <2>1. CASE PassTime
    <3>1. waitLeft' \in Nat
      BY <2>1 DEF PassTime, GreaterOf, TypeOK, ThreadTypeOK
    <3> QED
      BY <2>1, <3>1, CaptureAssumption, CadenceAssumption DEF TypeOK, ThreadTypeOK, DiskTypeOK, PassTime, disk
  <2>2. CASE StepClock
    BY <2>2, CaptureAssumption, CadenceAssumption DEF TypeOK, ThreadTypeOK, DiskTypeOK, StepClock, disk, thread
  <2>3. CASE EditConfig
    BY <2>3 DEF TypeOK, ThreadTypeOK, DiskTypeOK, EditConfig, disk, thread
  <2>4. CASE TogglePause
    BY <2>4 DEF TypeOK, ThreadTypeOK, DiskTypeOK, TogglePause, disk, thread
  <2>5. ASSUME NEW d \in dirs, RemoveDay(d) PROVE TypeOK'
    BY <2>5 DEF TypeOK, ThreadTypeOK, DiskTypeOK, RemoveDay, thread
  <2>6. CASE Start
    <3>1. DayOf(clock) \in Int /\ clock \in Int
      BY Typed, LocalTimes
    <3>2. cfg \in Intervals
      BY <2>6 DEF Start, TypeOK
    <3>3. interval' \in Intervals
      BY <2>6, <3>1, <3>2, CadenceChosen DEF Start
    <3>4. nextT' \in Int
      BY <2>6, <3>1, <3>3, TickTyped DEF Start
    <3>5. ThreadTypeOK'
      BY <2>6, <3>1, <3>3, <3>4, NoneIsAnInteger
      DEF Start, TypeOK, ThreadTypeOK
    <3> QED
      BY <2>6, <3>5 DEF TypeOK, DiskTypeOK, Start, disk
  <2>7. CASE Stop
    BY <2>7, CaptureAssumption, CadenceAssumption DEF TypeOK, ThreadTypeOK, DiskTypeOK, Stop, disk
  <2>8. CASE RecordCadences
    <3>1. DayOf(clock) \in Int /\ interval \in Intervals
      BY <2>8, Typed, LocalTimes DEF RecordCadences
    <3>2. /\ DOMAIN marker' \subseteq dirs
          /\ \A e \in DOMAIN marker' : marker'[e] \in Intervals
      BY <2>8, <3>1, MarkerWritten DEF RecordCadences, TypeOK, DiskTypeOK
    <3> QED
      BY <2>8, <3>2
      DEF TypeOK, ThreadTypeOK, DiskTypeOK, RecordCadences, thread
  <2>9. CASE Wait
    <3>1. nextT - clock \in Nat
      BY <2>9, Typed DEF Wait, Plan, TickPlan
    <3> QED
      BY <2>9, <3>1 DEF TypeOK, ThreadTypeOK, DiskTypeOK, Wait, disk
  <2>10. CASE Resync
    <3>1. nextT' \in Int
      BY <2>10, Typed, TickTyped DEF Resync
    <3> QED
      BY <2>10, <3>1 DEF TypeOK, ThreadTypeOK, DiskTypeOK, Resync, disk
  <2>11. CASE FireTick
    <3>1. /\ interval \in Intervals /\ interval \in Int
          /\ DayOf(nextT) \in Int /\ nextT \in Int /\ clock \in Int
      BY <2>11, Typed, LocalTimes DEF FireTick, TickDue
    <3>2. interval' \in Intervals
      BY <2>11, <3>1, CadenceChosen DEF FireTick, RollDay
    <3>3. /\ NextSlot(nextT, interval') \in Int
          /\ NextBoundary(clock, interval') \in Int
      BY <3>1, <3>2, TickTyped
    <3>4. nextT + interval \in Int
      BY <3>1
    <3>5. nextT' \in Int
      BY <2>11, <3>3, <3>4 DEF FireTick, RollDay
    <3>6. day' \in Int
      BY <2>11, <3>1 DEF FireTick, RollDay
    <3>7. ThreadTypeOK'
      BY <2>11, <3>1, <3>2, <3>5, <3>6 DEF FireTick, TypeOK, ThreadTypeOK
    <3> QED
      BY <2>11, <3>7 DEF TypeOK, DiskTypeOK, FireTick, disk
  <2>12. CASE GrabFails
    BY <2>12 DEF TypeOK, ThreadTypeOK, DiskTypeOK, GrabFails, AttemptFailed, disk
  <2>13. CASE GrabLosesDirectory
    BY <2>13, NoneIsAnInteger
    DEF TypeOK, ThreadTypeOK, DiskTypeOK, GrabLosesDirectory, AttemptFailed, disk
  <2>14. CASE GrabLands
    <3> DEFINE d == DayOf(fireT)
    <3>1. d \in Int /\ SecOf(fireT) \in Nat /\ interval \in Intervals
      BY <2>14, Typed, LocalTimes DEF GrabLands
    <3>2. /\ DOMAIN marker' \subseteq DOMAIN marker \cup {d}
          /\ \A e \in DOMAIN marker' : marker'[e] \in Intervals
      BY <2>14, <3>1, MarkerWritten DEF GrabLands, EnterDirectory, TypeOK, DiskTypeOK
    <3>3. frames' \subseteq Frame
      BY <2>14, <3>1 DEF GrabLands, TypeOK, DiskTypeOK, Frame
    <3>4. /\ dirs' = dirs \cup {d} /\ lastDir' = d
          /\ unmarked' \subseteq unmarked \cup {d}
      BY <2>14 DEF GrabLands, EnterDirectory
    <3> HIDE DEF d
    <3>5. DiskTypeOK'
      BY <3>1, <3>2, <3>3, <3>4 DEF TypeOK, DiskTypeOK
    <3> QED
      BY <2>14, <3>1, <3>4, <3>5 DEF TypeOK, ThreadTypeOK, GrabLands
  <2>15. CASE GrabCannotWrite
    <3> DEFINE d == DayOf(fireT)
    <3>1. d \in Int /\ interval \in Intervals
      BY <2>15, Typed, LocalTimes DEF GrabCannotWrite
    <3>2. /\ DOMAIN marker' \subseteq DOMAIN marker \cup {d}
          /\ \A e \in DOMAIN marker' : marker'[e] \in Intervals
      BY <2>15, <3>1, MarkerWritten DEF GrabCannotWrite, EnterDirectory, TypeOK, DiskTypeOK
    <3>3. /\ dirs' = dirs \cup {d} /\ lastDir' = d /\ frames' = frames
          /\ unmarked' \subseteq unmarked \cup {d}
      BY <2>15 DEF GrabCannotWrite, EnterDirectory
    <3> HIDE DEF d
    <3>4. DiskTypeOK'
      BY <3>1, <3>2, <3>3 DEF TypeOK, DiskTypeOK
    <3> QED
      BY <2>15, <3>1, <3>3, <3>4
      DEF TypeOK, ThreadTypeOK, GrabCannotWrite, AttemptFailed
  <2>16. CASE UNCHANGED vars
    BY <2>16 DEF TypeOK, ThreadTypeOK, DiskTypeOK, vars, disk, thread
  <2> QED
    BY <2>1, <2>2, <2>3, <2>4, <2>5, <2>6, <2>7, <2>8, <2>9, <2>10, <2>11,
       <2>12, <2>13, <2>14, <2>15, <2>16 DEF Next
<1> QED
  BY <1>1, <1>2, PTL DEF Spec

\* Whatever begin_day settles on for a day that has a marker is that marker.
LEMMA MarkerWins ==
  ASSUME NEW d, NEW current, d \in DOMAIN marker
  PROVE  CadenceFor(d, current) = marker[d]
  BY DEF CadenceFor

\* What a visit to a directory leaves behind: its marker is the thread's cadence
\* unless the day is one without, and the other days are as they were.
Entered(d) ==
  /\ dirs' = dirs \cup {d} /\ unmarked \subseteq unmarked'
  /\ unmarked' \subseteq unmarked \cup {d}
  /\ d \notin unmarked' => d \in DOMAIN marker' /\ marker'[d] = interval
  /\ DOMAIN marker \subseteq DOMAIN marker' /\ DOMAIN marker' \subseteq DOMAIN marker \cup {d}
  /\ \A e \in DOMAIN marker : marker'[e] = marker[e]

LEMMA EnterPreserves ==
  ASSUME NEW d, d = day, TypeOK, CadenceInv, pc = "fetch", EnterDirectory(d)
  PROVE  Entered(d)
<1>1. \/ UNCHANGED marker
      \/ /\ d \notin DOMAIN marker
         /\ marker' = [e \in DOMAIN marker \cup {d} |->
                         IF e = d THEN interval ELSE marker[e]]
  BY DEF EnterDirectory, WriteCadence
<1>2. d \notin unmarked' => d \in DOMAIN marker' /\ d \notin unmarked
  BY DEF EnterDirectory
<1>3. d \in DOMAIN marker \ unmarked => marker[d] = interval
  BY DEF CadenceInv, DayIsPinned
<1>4. d \notin unmarked' => marker'[d] = interval
  BY <1>1, <1>2, <1>3
<1> QED
  BY <1>1, <1>2, <1>4 DEF EnterDirectory, Entered

\* The cadence invariant is inductive, markers that cannot be written included.
LEMMA CadenceStep ==
  ASSUME TypeOK, CadenceInv, [Next]_vars
  PROVE  CadenceInv'
<1> USE DEF CadenceInv, DirsAreMarked, FramesMatchMarker, DayIsPinned,
            FetchIsOfItsDay
<1>1. CASE PassTime
  BY <1>1 DEF PassTime, disk
<1>2. CASE StepClock
  BY <1>2 DEF StepClock, disk, thread
<1>3. CASE EditConfig
  BY <1>3 DEF EditConfig, disk, thread
<1>4. CASE TogglePause
  BY <1>4 DEF TogglePause, disk, thread
<1>5. ASSUME NEW d \in dirs, RemoveDay(d) PROVE CadenceInv'
  BY <1>5 DEF RemoveDay, thread
<1>6. CASE Start
  BY <1>6, MarkerWins DEF Start, disk
<1>7. CASE Stop
  BY <1>7 DEF Stop, disk
<1>8. CASE RecordCadences
  <2> DEFINE d == DayOf(clock)
  <2>1. d \in dirs /\ UNCHANGED <<dirs, frames, unmarked, pc, day, interval, fireT>>
    BY <1>8 DEF RecordCadences, thread
  <2>2. d \notin unmarked => UNCHANGED marker
    BY <1>8, <2>1 DEF RecordCadences, WriteCadence
  <2>3. /\ DOMAIN marker \subseteq DOMAIN marker' /\ DOMAIN marker' \subseteq DOMAIN marker \cup {d}
        /\ \A e \in DOMAIN marker : marker'[e] = marker[e]
    BY <1>8 DEF RecordCadences, WriteCadence
  <2> HIDE DEF d
  <2> QED
    BY <2>1, <2>2, <2>3
<1>9. CASE Wait
  BY <1>9 DEF Wait, disk
<1>10. CASE Resync
  BY <1>10 DEF Resync, disk
<1>11. CASE FireTick
  <2>1. /\ day' = DayOf(nextT) /\ fireT' = nextT
        /\ interval' = IF DayOf(nextT) # day
                       THEN CadenceFor(DayOf(nextT), interval) ELSE interval
        /\ UNCHANGED <<dirs, marker, frames, unmarked>>
    BY <1>11 DEF FireTick, RollDay, disk
  <2>2. pc # "down"
    BY <1>11 DEF FireTick, TickDue
  <2>3. DayIsPinned'
    BY <2>1, <2>2, MarkerWins
  <2>4. FetchIsOfItsDay'
    BY <2>1
  <2> QED
    BY <2>1, <2>3, <2>4
<1>12. CASE GrabFails
  BY <1>12 DEF GrabFails, AttemptFailed, disk
<1>13. CASE GrabLosesDirectory
  BY <1>13 DEF GrabLosesDirectory, AttemptFailed, disk
<1>14. CASE GrabLands
  <2> DEFINE d == DayOf(fireT)
  <2>1. /\ pc = "fetch" /\ d = day
        /\ EnterDirectory(d)
        /\ UNCHANGED <<day, interval>> /\ pc' = "plan"
    BY <1>14 DEF GrabLands
  <2>2. \A f \in frames' :
          f \in frames \/ (f.day = d /\ f.cadence = interval)
    BY <1>14 DEF GrabLands
  <2> HIDE DEF d
  <2>3. Entered(d)
    BY <2>1, EnterPreserves
  <2>4. DirsAreMarked' /\ DayIsPinned' /\ FetchIsOfItsDay'
    BY <2>1, <2>3 DEF Entered
  <2>5. FramesMatchMarker'
    BY <2>2, <2>3 DEF Entered
  <2> QED
    BY <2>4, <2>5
<1>15. CASE GrabCannotWrite
  <2> DEFINE d == DayOf(fireT)
  <2>1. /\ pc = "fetch" /\ d = day
        /\ EnterDirectory(d)
        /\ UNCHANGED <<day, interval, fireT, frames>> /\ pc' \in {"plan", "fetch"}
    BY <1>15 DEF GrabCannotWrite, AttemptFailed
  <2>2. DayOf(fireT') = d
    BY <2>1
  <2> HIDE DEF d
  <2>3. Entered(d)
    BY <2>1, EnterPreserves
  <2>4. DirsAreMarked' /\ DayIsPinned'
    BY <2>1, <2>3 DEF Entered
  <2>5. FramesMatchMarker'
    BY <2>1, <2>3 DEF Entered
  <2>6. FetchIsOfItsDay'
    BY <2>1, <2>2
  <2> QED
    BY <2>4, <2>5, <2>6
<1>16. CASE UNCHANGED vars
  BY <1>16 DEF vars, disk, thread
<1> QED
  BY <1>1, <1>2, <1>3, <1>4, <1>5, <1>6, <1>7, <1>8, <1>9, <1>10, <1>11,
     <1>12, <1>13, <1>14, <1>15, <1>16 DEF Next

\* One day, one cadence: every frame on disk was captured at the cadence its
\* day's marker records, but for the days whose marker could not be written.
THEOREM OneCadencePerDay == Spec => []FramesMatchMarker
<1>1. Init => CadenceInv
  BY DEF Init, CadenceInv, DirsAreMarked, FramesMatchMarker, DayIsPinned,
         FetchIsOfItsDay
<1>2. TypeOK /\ CadenceInv /\ [Next]_vars => CadenceInv'
  BY CadenceStep
<1>3. CadenceInv => FramesMatchMarker
  BY DEF CadenceInv
<1> QED
  BY <1>1, <1>2, <1>3, TypeCorrect, PTL DEF Spec

\* A tick fires only when the plan for it lies within one interval either way.
LEMMA DueWithinInterval ==
  ASSUME TypeOK, TickDue
  PROVE  /\ pc # "down"
         /\ nextT - clock <= interval /\ clock - nextT <= interval
         /\ pc = "plan" => nextT <= clock
<1>1. pc # "down" /\ clock \in Int /\ nextT \in Int /\ interval \in Nat \ {0}
  BY Typed DEF TickDue
<1>2. TickPlan(nextT, clock, interval) # "resync"
  BY DEF TickDue, Plan
<1>3. pc = "plan" => TickPlan(nextT, clock, interval) = "fire"
  BY DEF TickDue, Plan
<1> QED
  BY <1>1, <1>2, <1>3 DEF TickPlan

\* Where the next tick lies once one has fired: ahead of the one fired, on the
\* grid of the cadence then in force, at most one interval from the clock
\* unless the fired tick itself was ahead of it.
LEMMA NextAfterFire ==
  ASSUME TypeOK, NextTickOnGrid, FireTick
  PROVE  /\ interval' \in Nat \ {0}
         /\ nextT' > nextT
         /\ OnGrid(nextT', interval')
         /\ nextT <= clock => nextT' <= clock + interval'
<1>1. /\ pc # "down" /\ interval \in Intervals /\ interval \in Nat \ {0}
      /\ nextT \in Int /\ clock \in Int
  BY Typed, DueWithinInterval DEF FireTick
<1>2. DayOf(nextT) \in Int
  BY <1>1, LocalTimes
<1>3. interval' = IF DayOf(nextT) # day THEN CadenceFor(DayOf(nextT), interval)
                  ELSE interval
  BY DEF FireTick, RollDay
<1>4. interval' \in Nat \ {0}
  BY <1>1, <1>2, <1>3, CadenceChosen, CaptureAssumption, CadenceAssumption
<1> DEFINE following == IF DayOf(nextT) # day /\ interval' # interval
                        THEN NextSlot(nextT, interval')
                        ELSE nextT + interval
<1>5. OnGrid(nextT, interval)
  BY <1>1 DEF NextTickOnGrid
<1> DEFINE i == interval'
<1>6. i \in Nat \ {0} /\ i \in Int
  BY <1>4
<1>7. /\ following \in Int /\ following > nextT
      /\ following <= nextT + i
      /\ OnGrid(following, i)
  <2>1. CASE DayOf(nextT) # day /\ interval' # interval
    BY <2>1, <1>1, <1>4, NextSlotStrictlyAfter
  <2>2. CASE ~(DayOf(nextT) # day /\ interval' # interval)
    <3>1. interval' = interval
      BY <2>2, <1>3
    <3>2. following = nextT + interval
      BY <2>2
    <3> QED
      BY <3>1, <3>2, <1>1, <1>5, GridIsPeriodic
  <2> QED
    BY <2>1, <2>2
<1>8. nextT' = IF following <= clock THEN NextBoundary(clock, i) ELSE following
  BY DEF FireTick, RollDay
<1> HIDE DEF following, i
<1>9. /\ NextBoundary(clock, i) \in Int
      /\ NextBoundary(clock, i) >= clock
      /\ NextBoundary(clock, i) < clock + i
      /\ OnGrid(NextBoundary(clock, i), i)
  BY <1>1, <1>6, NextBoundaryAtOrAfter
<1>10. PICK n \in Int : /\ n = nextT'
                        /\ n = IF following <= clock
                               THEN NextBoundary(clock, i) ELSE following
  BY <1>7, <1>8, <1>9
<1>11. n > nextT
  BY <1>1, <1>7, <1>9, <1>10
<1>12. OnGrid(n, i)
  BY <1>7, <1>9, <1>10
<1>13. ASSUME nextT <= clock PROVE n <= clock + i
  <2>1. following <= clock + i /\ NextBoundary(clock, i) <= clock + i
    BY <1>1, <1>6, <1>7, <1>9, <1>13
  <2> QED
    BY <1>10, <2>1
<1> QED
  BY <1>6, <1>10, <1>11, <1>12, <1>13 DEF i

\* The tick invariant is inductive.
LEMMA TickStep ==
  ASSUME TypeOK, TickInv, [Next]_vars
  PROVE  TickInv'
<1> USE DEF TickInv, NextTickOnGrid
<1>0. clock \in Int /\ nextT \in Int /\ fireT \in Int /\ steps \in Nat
  BY Typed, CaptureAssumption, CadenceAssumption DEF TypeOK
<1>1. CASE PassTime
  <2> DEFINE w == GreaterOf(waitLeft - 1, 0)
  <2>1. waitLeft \in Nat /\ w \in Int /\ w >= waitLeft - 1
    BY DEF TypeOK, ThreadTypeOK, GreaterOf
  <2>2. /\ clock' = clock + 1 /\ waitLeft' = w
        /\ UNCHANGED <<steps, pc, interval, nextT, fireT>>
    BY <1>1 DEF PassTime
  <2> HIDE DEF w
  <2>3. pc # "down" => interval \in Nat \ {0}
    BY Typed
  <2>4. ASSUME steps = 0, pc # "down"
        PROVE  fireT < nextT /\ nextT <= (clock + 1) + interval
    BY <1>0, <2>3, <2>4
  <2>5. ASSUME steps = 0, pc = "waited"
        PROVE  nextT <= (clock + 1) + w
    BY <1>0, <2>1, <2>5
  <2>6. ASSUME steps = 0
        PROVE  fireT <= clock + 1 /\ (pc = "down" => fireT < clock + 1)
    BY <1>0, <2>6
  <2> QED
    BY <2>2, <2>4, <2>5, <2>6
<1>2. CASE StepClock
  <2>1. steps' # 0 /\ UNCHANGED <<pc, nextT, interval>>
    BY <1>0, <1>2 DEF StepClock, thread
  <2> QED
    BY <2>1
<1>3. CASE EditConfig
  BY <1>3 DEF EditConfig, thread
<1>4. CASE TogglePause
  BY <1>4 DEF TogglePause, thread
<1>5. ASSUME NEW d \in dirs, RemoveDay(d) PROVE TickInv'
  BY <1>5 DEF RemoveDay, thread
<1>6. CASE Start
  <2> DEFINE i == CadenceFor(DayOf(clock), cfg)
             n == NextBoundary(clock, i)
  <2>1. i \in Nat \ {0}
    <3>1. DayOf(clock) \in Int /\ cfg \in Intervals
      BY <1>0, <1>6, LocalTimes DEF Start, TypeOK
    <3> QED
      BY <3>1, CadenceChosen, CaptureAssumption, CadenceAssumption
  <2>2. n \in Int /\ n >= clock /\ n < clock + i /\ OnGrid(n, i)
    BY <1>0, <2>1, NextBoundaryAtOrAfter
  <2>3. /\ interval' = i /\ nextT' = n
        /\ pc' = "plan" /\ pc = "down" /\ UNCHANGED <<clock, steps, fireT>>
    BY <1>6 DEF Start
  <2> HIDE DEF i, n
  <2>4. ASSUME steps = 0
        PROVE  fireT <= clock /\ fireT < n /\ n <= clock + i
    BY <1>0, <2>1, <2>2, <2>3, <2>4
  <2> QED
    BY <2>2, <2>3, <2>4
<1>7. CASE Stop
  <2>1. pc' = "down" /\ clock' = clock + 1 /\ UNCHANGED <<steps, fireT>>
    BY <1>7 DEF Stop
  <2> QED
    BY <1>0, <2>1
<1>8. CASE RecordCadences
  BY <1>8 DEF RecordCadences, thread
<1>9. CASE Wait
  BY <1>0, <1>9 DEF Wait
<1>10. CASE Resync
  <2>1. pc # "down" /\ interval \in Nat \ {0}
    BY <1>10, Typed DEF Resync
  <2>2. TickPlan(nextT, clock, interval) = "resync"
    BY <1>10 DEF Resync, Plan
  <2>3. /\ nextT' \in Int /\ nextT' >= clock /\ nextT' < clock + interval
        /\ OnGrid(nextT', interval)
    BY <1>0, <1>10, <2>1, NextBoundaryAtOrAfter DEF Resync
  <2>4. /\ pc' = "plan"
        /\ UNCHANGED <<clock, steps, fireT, interval, waitLeft>>
    BY <1>10 DEF Resync
  <2>5. steps = 0 => fireT < nextT /\ nextT < clock - interval
    BY <1>0, <2>1, <2>2 DEF TickPlan
  <2> QED
    BY <1>0, <2>1, <2>3, <2>4, <2>5
<1>11. CASE FireTick
  <2>1. /\ interval' \in Nat \ {0} /\ nextT' > nextT
        /\ OnGrid(nextT', interval')
        /\ nextT <= clock => nextT' <= clock + interval'
    BY <1>11, NextAfterFire
  <2>2. pc = "plan" => nextT <= clock
    BY <1>11, DueWithinInterval DEF FireTick
  <2>3. pc = "plan" \/ (pc = "waited" /\ waitLeft = 0)
    BY <1>11 DEF FireTick, TickDue
  <2>4. steps = 0 => nextT <= clock
    BY <1>0, <2>2, <2>3
  <2>5. /\ fireT' = nextT /\ pc' \in {"plan", "fetch"}
        /\ UNCHANGED <<clock, steps>>
    BY <1>11 DEF FireTick
  <2> QED
    BY <1>0, <2>1, <2>4, <2>5
<1>12. CASE GrabFails
  BY <1>12 DEF GrabFails, AttemptFailed
<1>13. CASE GrabLosesDirectory
  BY <1>13 DEF GrabLosesDirectory, AttemptFailed
<1>14. CASE GrabLands
  BY <1>14 DEF GrabLands
<1>15. CASE GrabCannotWrite
  BY <1>15 DEF GrabCannotWrite, AttemptFailed
<1>16. CASE UNCHANGED vars
  BY <1>16 DEF vars, thread
<1> QED
  BY <1>1, <1>2, <1>3, <1>4, <1>5, <1>6, <1>7, <1>8, <1>9, <1>10, <1>11,
     <1>12, <1>13, <1>14, <1>15, <1>16 DEF Next

LEMMA TickInvariant == Spec => []TickInv
<1>1. Init => TickInv
  BY DEF Init, TickInv, NextTickOnGrid, NoTick
<1>2. TypeOK /\ TickInv /\ [Next]_vars => TickInv'
  BY TickStep
<1> QED
  BY <1>1, <1>2, TypeCorrect, PTL DEF Spec

\* While nobody steps the clock, ticks fire in strictly increasing order, in
\* one process and from one process to the next.
THEOREM TicksInOrder == Spec => TicksAdvance
<1>1. TypeOK /\ TickInv /\ [Next]_vars
        => [FireTick /\ steps = 0 => fireT' > fireT]_vars
  <2> SUFFICES ASSUME TypeOK, TickInv, FireTick, steps = 0
               PROVE  fireT' > fireT
    OBVIOUS
  <2>1. pc # "down"
    BY DEF FireTick, TickDue
  <2> QED
    BY <2>1 DEF FireTick, TickInv
<1> QED
  BY <1>1, TypeCorrect, TickInvariant, PTL DEF Spec, TicksAdvance

\* A tick that opens no day sits on the day's grid, clock steps included.
THEOREM TicksOnGrid == Spec => TicksStayOnGrid
<1>1. TypeOK /\ TickInv /\ [Next]_vars
        => [FireTick /\ day' = day => OnGrid(fireT', interval')]_vars
  <2> SUFFICES ASSUME TypeOK, TickInv, FireTick, day' = day
               PROVE  OnGrid(fireT', interval')
    OBVIOUS
  <2>1. pc # "down" /\ fireT' = nextT
    BY DEF FireTick, TickDue
  <2>2. interval' = interval
    BY DEF FireTick, RollDay
  <2> QED
    BY <2>1, <2>2 DEF TickInv, NextTickOnGrid
<1> QED
  BY <1>1, TypeCorrect, TickInvariant, PTL DEF Spec, TicksStayOnGrid

\* A frame on disk is never replaced while a suffix is free for the new one.
THEOREM FramesAreKept == Spec => NoFrameOverwritten
<1>1. ASSUME Next PROVE FramesStay
  <2> SUFFICES ASSUME NEW f \in frames, f \notin frames'
               PROVE  f.day \notin dirs' \/ f.n = SuffixLimit - 1
    BY DEF FramesStay
  <2>1. ASSUME NEW d \in dirs, RemoveDay(d) PROVE f.day \notin dirs'
    BY <2>1 DEF RemoveDay
  <2>2. CASE GrabLands
    <3>1. PICK n \in 0..(SuffixLimit - 1) :
            /\ NamePicked(n, DayOf(fireT), SecOf(fireT))
            /\ frames' = {g \in frames : <<g.day, g.sec, g.n>>
                                           # <<DayOf(fireT), SecOf(fireT), n>>}
                 \cup {[day |-> DayOf(fireT), sec |-> SecOf(fireT), n |-> n,
                        cadence |-> interval]}
      BY <2>2 DEF GrabLands
    <3>2. f.day = DayOf(fireT) /\ f.sec = SecOf(fireT) /\ f.n = n
      BY <3>1
    <3>3. n \in NamesTaken(DayOf(fireT), SecOf(fireT))
      BY <3>2 DEF NamesTaken
    <3> QED
      BY <3>1, <3>2, <3>3 DEF NamePicked
  <2>3. CASE \/ PassTime \/ StepClock \/ EditConfig \/ TogglePause \/ Start
             \/ Stop \/ RecordCadences \/ Wait \/ Resync \/ FireTick
             \/ GrabFails \/ GrabLosesDirectory \/ GrabCannotWrite
    BY <2>3 DEF PassTime, StepClock, EditConfig, TogglePause, Start, Stop,
                RecordCadences, Wait, Resync, FireTick, GrabFails,
                GrabLosesDirectory, GrabCannotWrite, disk
  <2> QED
    BY <1>1, <2>1, <2>2, <2>3 DEF Next
<1>2. ImageIsOneMore
  <2> SUFFICES ASSUME GrabLands,
                      SuffixLimit - 1 \notin NamesTaken(DayOf(fireT), SecOf(fireT))
               PROVE  frames' \ frames # {}
    BY DEF ImageIsOneMore
  <2> DEFINE image(n) == [day |-> DayOf(fireT), sec |-> SecOf(fireT), n |-> n,
                          cadence |-> interval]
  <2>1. PICK n \in 0..(SuffixLimit - 1) :
          NamePicked(n, DayOf(fireT), SecOf(fireT)) /\ image(n) \in frames'
    BY DEF GrabLands
  <2>2. n \notin NamesTaken(DayOf(fireT), SecOf(fireT))
    BY <2>1 DEF NamePicked
  <2>3. image(n) \notin frames
    BY <2>2 DEF NamesTaken
  <2> QED
    BY <2>1, <2>3 DEF Entered
<1>3. [Next]_vars => [FramesStay /\ ImageIsOneMore]_vars
  BY <1>1, <1>2
<1> QED
  BY <1>3, PTL DEF Spec, NoFrameOverwritten

\* A running thread changes its cadence only with its day.
THEOREM CadenceWaitsForMidnight == Spec => EditsWaitForMidnight
<1>1. ASSUME Next, pc # "down", pc' # "down", interval' # interval
      PROVE  day' # day
  <2>1. ~(\E d \in dirs : RemoveDay(d))
    BY <1>1 DEF RemoveDay, thread
  <2>2. ~(PassTime \/ StepClock \/ EditConfig \/ TogglePause \/ RecordCadences)
    BY <1>1 DEF PassTime, StepClock, EditConfig, TogglePause, RecordCadences, thread
  <2>3. ~(Start \/ Stop \/ Wait \/ Resync)
    BY <1>1 DEF Start, Stop, Wait, Resync
  <2>4. ~(GrabFails \/ GrabLosesDirectory \/ GrabCannotWrite \/ GrabLands)
    BY <1>1 DEF GrabFails, GrabLosesDirectory, GrabCannotWrite, GrabLands
  <2>5. FireTick
    BY <1>1, <2>1, <2>2, <2>3, <2>4 DEF Next
  <2> QED
    BY <2>5, <1>1 DEF FireTick, RollDay
<1>2. [Next]_vars
        => [pc # "down" /\ pc' # "down" /\ interval' # interval => day' # day]_vars
  BY <1>1
<1> QED
  BY <1>2, PTL DEF Spec, EditsWaitForMidnight

\* A tick fires at most one interval from the clock, however the clock steps.
THEOREM FiresNearClock == Spec => FiredNearClock
<1>1. TypeOK /\ [Next]_vars
        => [FireTick => fireT' - clock <= interval /\ clock - fireT' <= interval]_vars
  <2> SUFFICES ASSUME TypeOK, FireTick
               PROVE  fireT' - clock <= interval /\ clock - fireT' <= interval
    OBVIOUS
  <2>1. nextT - clock <= interval /\ clock - nextT <= interval
    BY DueWithinInterval DEF FireTick
  <2> QED
    BY <2>1 DEF FireTick
<1> QED
  BY <1>1, TypeCorrect, PTL DEF Spec, FiredNearClock
===============================================================================
