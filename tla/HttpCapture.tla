----------------------------- MODULE HttpCapture ------------------------------
(***************************************************************************)
(* One HTTP camera thread of the capture daemon: the tick loop of          *)
(* HttpCamera.run, the day it is in, the cadence that day is pinned to     *)
(* (DayCadenceMixin, the .cadence.json marker) and the frames it names     *)
(* after its ticks (_dest_path, _grab).  Camera threads share nothing but  *)
(* STOP and PAUSED, so one of them is modelled, beside the daemon's main   *)
(* thread (record_cadences), the wall clock, which may step, somebody      *)
(* editing config.json, and somebody (an operator, the encoder) removing   *)
(* day directories.                                                        *)
(***************************************************************************)
EXTENDS TickGrid, DayCadence, FiniteSets

CONSTANTS
  DayLen,         \* units of local time in a day
  FallBack,       \* the instant at which local time falls back (DST) ...
  FoldLen,        \* ... by this much; 0 is a zone without the change
  SuffixLimit,    \* names tried for one second: 000000.jpg, -1, ... (100)
  MaxClock,       \* bound: the model's time ends here
  MaxSteps        \* bound: how often the wall clock is stepped

ASSUME CaptureAssumption ==
  /\ DayLen \in Nat \ {0}
  /\ FallBack \in Nat /\ FoldLen \in Nat /\ FoldLen <= FallBack
  /\ SuffixLimit \in Nat \ {0, 1}
  /\ MaxClock \in Nat /\ MaxSteps \in Nat

VARIABLES
  clock,       \* time.time()
  steps,       \* how often the clock has been stepped so far
  dirs,        \* the day directories that exist under the camera's root
  frames,      \* the .jpg files, with the cadence each was captured at
  unmarked,    \* history: the directories whose marker failed to be written
  paused,      \* PAUSED, the disk guard's event
  pc,          \* where the thread is: down, plan, waited, fetch
  day,         \* self.day
  interval,    \* self.interval
  nextT,       \* next_t of the loop
  waitLeft,    \* what is left of STOP.wait(value), monotonic
  fireT,       \* the last tick fired, kept over restarts as history
  lastDir,     \* self._last_dir
  failing,     \* self.consec_fail > 0
  retried      \* this tick's second attempt is under way

disk   == <<dirs, marker, frames, unmarked>>
thread == <<pc, day, interval, nextT, waitLeft, fireT, lastDir, failing,
            retried>>
vars   == <<clock, steps, cfg, paused, disk, thread>>

NoDay  == -1       \* None, for self.day and self._last_dir
NoTick == -1

-------------------------------------------------------------------------------
(* Local time, days and file names.                                        *)

LocalTime(t) == IF t < FallBack THEN t ELSE t - FoldLen
DayOf(t)     == LocalTime(t) \div DayLen
SecOf(t)     == LocalTime(t) % DayLen

NamesTaken(d, s) == {f.n : f \in {g \in frames : g.day = d /\ g.sec = s}}

\* A slip: the plain name without asking whether it exists.
NamePlain(n, d, s) == n = 0

\* The name _dest_path settles on: the plain one, else the first free suffix,
\* else the last suffix it tried, whoever holds it.
NamePicked(n, d, s) ==
  /\ \A m \in 0..(n - 1) : m \in NamesTaken(d, s)
  /\ n \notin NamesTaken(d, s) \/ n = SuffixLimit - 1

-------------------------------------------------------------------------------
Init ==
  /\ clock = 0 /\ steps = 0
  /\ cfg \in Intervals
  /\ dirs = {} /\ frames = {} /\ unmarked = {}
  /\ marker = [d \in {} |-> 0]
  /\ paused = FALSE
  /\ pc = "down" /\ day = NoDay /\ interval = 0 /\ nextT = 0
  /\ waitLeft = 0 /\ fireT = NoTick /\ lastDir = NoDay
  /\ failing = FALSE /\ retried = FALSE

\* Real time passes: the wall clock and a running STOP.wait both see it.
PassTime ==
  /\ clock < MaxClock
  /\ clock' = clock + 1
  /\ waitLeft' = GreaterOf(waitLeft - 1, 0)
  /\ UNCHANGED <<steps, cfg, paused, disk, pc, day, interval, nextT, fireT,
                 lastDir, failing, retried>>

\* chrony, an operator or a resume steps the wall clock; a wait never notices.
StepClock ==
  /\ steps < MaxSteps
  /\ \E t \in 0..MaxClock : t # clock /\ clock' = t
  /\ steps' = steps + 1
  /\ UNCHANGED <<cfg, paused, disk, thread>>

\* Somebody saves config.json, or is halfway through doing so.
EditConfig ==
  /\ \E c \in (Intervals \cup {Unreadable}) \ {cfg} : cfg' = c
  /\ UNCHANGED <<clock, steps, paused, disk, thread>>

\* The disk guard sets or clears PAUSED.
TogglePause ==
  /\ paused' = ~paused
  /\ UNCHANGED <<clock, steps, cfg, disk, thread>>

\* An operator clears a day, or the encoder removes it after encoding.
RemoveDay(d) ==
  /\ d \in dirs
  /\ dirs' = dirs \ {d}
  /\ marker' = [e \in DOMAIN marker \ {d} |-> marker[e]]
  /\ frames' = {f \in frames : f.day # d}
  /\ unmarked' = unmarked \ {d}
  /\ UNCHANGED <<clock, steps, cfg, paused, thread>>

\* run_daemon and the thread's first lines: settle the day, find the grid.
Start ==
  /\ pc = "down" /\ cfg # Unreadable
  /\ day' = DayOf(clock)
  /\ interval' = CadenceFor(DayOf(clock), cfg)
  /\ nextT' = NextBoundary(clock, interval')
  /\ lastDir' = NoDay /\ failing' = FALSE /\ retried' = FALSE
  /\ waitLeft' = 0 /\ pc' = "plan"
  /\ UNCHANGED <<clock, steps, cfg, paused, disk, fireT>>

\* The process is stopped, killed or loses power; coming back takes time.
Stop ==
  /\ pc # "down" /\ clock < MaxClock
  /\ pc' = "down" /\ waitLeft' = 0
  /\ clock' = clock + 1
  /\ UNCHANGED <<steps, cfg, paused, disk, day, interval, nextT, fireT, lastDir,
                 failing, retried>>

\* The main thread's backstop, once a minute: today's directory, if it exists.
RecordCadences ==
  /\ pc # "down"
  /\ DayOf(clock) \in dirs
  /\ WriteCadence(DayOf(clock), interval)
  /\ UNCHANGED <<clock, steps, cfg, paused, dirs, frames, unmarked, thread>>

-------------------------------------------------------------------------------
(* The tick loop.                                                          *)

Plan == TickPlan(nextT, clock, interval)

Wait ==
  /\ pc = "plan" /\ Plan = "wait"
  /\ pc' = "waited" /\ waitLeft' = nextT - clock
  /\ UNCHANGED <<clock, steps, cfg, paused, disk, day, interval, nextT, fireT,
                 lastDir, failing, retried>>

\* The clock and the schedule are too far apart: back to the grid, no fetch.
Resync ==
  /\ pc = "plan" \/ (pc = "waited" /\ waitLeft = 0)
  /\ Plan = "resync"
  /\ pc' = "plan" /\ nextT' = NextBoundary(clock, interval)
  /\ UNCHANGED <<clock, steps, cfg, paused, disk, day, interval, waitLeft, fireT,
                 lastDir, failing, retried>>

\* A tick is honoured when it is due, and after its wait whatever the second
\* plan says short of a resync.
TickDue ==
  \/ pc = "plan" /\ Plan = "fire"
  \/ pc = "waited" /\ waitLeft = 0 /\ Plan # "resync"

\* A slip: the old phase carried forward into a day of another cadence.
RollKeepingPhase ==
  /\ day' = DayOf(nextT)
  /\ interval' = IF DayOf(nextT) # day
                 THEN CadenceFor(DayOf(nextT), interval) ELSE interval
  /\ nextT' = IF nextT + interval' <= clock
              THEN NextBoundary(clock, interval')
              ELSE nextT + interval'

\* _roll_day: a tick of another day settles that day's cadence; one that
\* changed re-anchors the grid.
RollDay ==
  LET d == DayOf(nextT)
      following == IF d # day /\ interval' # interval
                   THEN NextSlot(nextT, interval')
                   ELSE nextT + interval
  IN  /\ day' = d
      /\ interval' = IF d # day THEN CadenceFor(d, interval) ELSE interval
      /\ nextT' = IF following <= clock
                  THEN NextBoundary(clock, interval')
                  ELSE following

\* Fire the tick.  PAUSED and the authentication back-off withhold the fetch
\* (AuthBackoff says when); nothing else about the tick changes.
FireTick ==
  /\ TickDue
  /\ fireT' = nextT
  /\ RollDay
  /\ \/ pc' = "plan"
     \/ ~paused /\ pc' = "fetch"
  /\ retried' = FALSE
  /\ UNCHANGED <<clock, steps, cfg, paused, disk, waitLeft, lastDir, failing>>

\* What run and _retry_grab do with a failed attempt: a second one in the same
\* tick, only when the previous tick was fine, or the tick is a failure.
AttemptFailed ==
  \/ /\ ~retried /\ ~failing
     /\ retried' = TRUE
     /\ UNCHANGED <<pc, failing>>
  \/ /\ pc' = "plan" /\ failing' = TRUE
     /\ UNCHANGED retried

\* The camera did not answer with an image.
GrabFails ==
  /\ pc = "fetch"
  /\ AttemptFailed
  /\ UNCHANGED <<clock, steps, cfg, paused, disk, day, interval, nextT, waitLeft,
                 fireT, lastDir>>

\* The image arrived but the day directory went away: forget it, so that the
\* next attempt creates it again.
GrabLosesDirectory ==
  /\ pc = "fetch"
  /\ lastDir = DayOf(fireT) /\ lastDir \notin dirs
  /\ lastDir' = NoDay
  /\ AttemptFailed
  /\ UNCHANGED <<clock, steps, cfg, paused, disk, day, interval, nextT, waitLeft,
                 fireT>>

\* _grab's first visit to a directory makes it and its marker.
EnterDirectory(d) ==
  /\ lastDir = d => d \in dirs
  /\ IF lastDir # d THEN WriteCadence(d, interval) ELSE UNCHANGED marker
  /\ unmarked' = IF d \in DOMAIN marker' THEN unmarked ELSE unmarked \cup {d}
  /\ dirs' = dirs \cup {d} /\ lastDir' = d

\* The image arrived, but a full or failing disk takes the day's directory (and
\* its marker) and then not the file, or not its final name.
GrabCannotWrite ==
  LET d == DayOf(fireT)
  IN  /\ pc = "fetch"
      /\ EnterDirectory(d)
      /\ AttemptFailed
      /\ UNCHANGED <<clock, steps, cfg, paused, frames, day, interval, nextT,
                     waitLeft, fireT>>

\* The image is written under the tick's name, the directory and its marker
\* first when the thread has not been in that directory yet.
GrabLands ==
  LET d == DayOf(fireT)
      s == SecOf(fireT)
  IN  /\ pc = "fetch"
      /\ EnterDirectory(d)
      /\ \E n \in 0..(SuffixLimit - 1) :
           /\ NamePicked(n, d, s)
           /\ frames' = {f \in frames : <<f.day, f.sec, f.n>> # <<d, s, n>>}
                \cup {[day |-> d, sec |-> s, n |-> n, cadence |-> interval]}
      /\ pc' = "plan" /\ failing' = FALSE
      /\ UNCHANGED <<clock, steps, cfg, paused, day, interval, nextT, waitLeft,
                     fireT, retried>>

-------------------------------------------------------------------------------
Next ==
  \/ PassTime \/ StepClock \/ EditConfig \/ TogglePause
  \/ \E d \in dirs : RemoveDay(d)
  \/ Start \/ Stop \/ RecordCadences
  \/ Wait \/ Resync \/ FireTick
  \/ GrabFails \/ GrabLosesDirectory \/ GrabCannotWrite \/ GrabLands

Spec == Init /\ [][Next]_vars

-------------------------------------------------------------------------------
(* Properties.                                                             *)

Frame == [day : Int, sec : Nat, n : 0..(SuffixLimit - 1), cadence : Intervals]

DiskTypeOK ==
  /\ dirs \subseteq Int /\ DOMAIN marker \subseteq dirs
  /\ \A d \in DOMAIN marker : marker[d] \in Intervals
  /\ frames \subseteq Frame /\ unmarked \subseteq dirs

ThreadTypeOK ==
  /\ pc \in {"down", "plan", "waited", "fetch"}
  /\ day \in Int /\ lastDir \in Int
  /\ nextT \in Int /\ fireT \in Int /\ waitLeft \in Nat
  /\ failing \in BOOLEAN /\ retried \in BOOLEAN
  /\ interval \in Intervals \cup {0}
  /\ pc # "down" => interval \in Intervals

\* The type invariant: a marker only in a day directory, a cadence in every
\* running thread.
TypeOK ==
  /\ clock \in 0..MaxClock /\ steps \in 0..MaxSteps
  /\ cfg \in Intervals \cup {Unreadable}
  /\ paused \in BOOLEAN
  /\ DiskTypeOK
  /\ ThreadTypeOK

\* "One day, one cadence": every frame of a day was captured at the cadence
\* the day's marker records, through edits of the config, restarts, clock
\* steps and directories that vanish (begin_day, write_cadence).  A marker that
\* could not be written when its directory was made loses that day only.
FramesMatchMarker ==
  \A f \in frames : f.day \notin unmarked =>
    f.day \in DOMAIN marker /\ marker[f.day] = f.cadence

DirsAreMarked == dirs \ unmarked \subseteq DOMAIN marker
DayIsPinned ==
  pc # "down" /\ day \in DOMAIN marker \ unmarked => marker[day] = interval
FetchIsOfItsDay == pc = "fetch" => DayOf(fireT) = day

\* The inductive form of the rule: the thread's cadence is that of its day, and
\* a fetch in flight belongs to that day.
CadenceInv ==
  DirsAreMarked /\ FramesMatchMarker /\ DayIsPinned /\ FetchIsOfItsDay

NextTickOnGrid == pc # "down" => OnGrid(nextT, interval)

\* The inductive form of the two tick properties below: the next tick is on
\* the grid, ahead of the last one, and at most one interval from the clock.
TickInv ==
  /\ NextTickOnGrid
  /\ steps = 0 =>
       /\ fireT <= clock
       /\ pc = "down" => fireT < clock
       /\ pc # "down" => fireT < nextT /\ nextT <= clock + interval
       /\ pc = "waited" => nextT <= clock + waitLeft

\* A running thread never changes its cadence within a day (_roll_day).
EditsWaitForMidnight ==
  [][pc # "down" /\ pc' # "down" /\ interval' # interval => day' # day]_vars

\* A tick that opens no day sits on the grid of the day's cadence, so a day's
\* frames are evenly named but for the first (next_slot, next_boundary).
TicksStayOnGrid ==
  [][FireTick /\ day' = day => OnGrid(fireT', interval')]_vars

\* While nobody steps the clock, no tick is fired twice and none out of order,
\* by one process or by the next, across days and changes of cadence.
TicksAdvance ==
  [][FireTick /\ steps = 0 => fireT' > fireT]_vars

\* A frame is named after a tick at most one interval from the clock at which
\* its fetch begins, also when the clock steps during the wait (tick_plan).
FiredNearClock ==
  [][FireTick => fireT' - clock <= interval /\ clock - fireT' <= interval]_vars

FramesStay ==
  \A f \in frames \ frames' : f.day \notin dirs' \/ f.n = SuffixLimit - 1
ImageIsOneMore ==
  GrabLands => \/ SuffixLimit - 1 \in NamesTaken(DayOf(fireT), SecOf(fireT))
               \/ frames' \ frames # {}

\* No frame replaces another while a suffix is free: a frame disappears only
\* with its day, and every image that lands is one more, until the SuffixLimit
\* names of its second are taken (_dest_path).
NoFrameOverwritten == [][FramesStay /\ ImageIsOneMore]_vars
===============================================================================
