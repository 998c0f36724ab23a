----------------------------- MODULE RtspGrabber ------------------------------
(***************************************************************************)
(* One RTSP camera thread of the capture daemon: the supervisor loop of    *)
(* RtspCamera.run, the ffmpeg it launches for one day, and the day         *)
(* directory it makes for it and takes back when nothing was captured.     *)
(* ffmpeg is external: it connects after a while, writes frames named by   *)
(* the wall clock into the directory on its command line, and stops after  *)
(* the stream time it was given, or when it dies or is ended.              *)
(***************************************************************************)
EXTENDS DayCadence, FiniteSets

CONSTANTS
  DayLen,       \* units of time in a day
  MaxConnect,   \* external: the longest a connection takes that succeeds
  MaxSetup,     \* the longest the thread takes from reading the day to -t
  MaxClock,     \* bound: the model's time ends here
  MaxKills      \* bound: how often the daemon is killed

ASSUME GrabberAssumption ==
  /\ DayLen \in Nat \ {0}
  /\ MaxConnect \in Nat /\ MaxSetup \in 0..DayLen /\ MaxClock \in Nat /\ MaxKills \in Nat

VARIABLES
  clock,       \* time.time()
  dirs,        \* the day directories under the camera's root
  frames,      \* the .jpg files: directory, name, cadence, and when taken
  grabberPaused, \* PAUSED
  stopping,    \* STOP
  pc,          \* the thread: down, top, chosen, prepared, supervise, ended,
               \* backoff
  today,       \* run's local `day`
  interval,    \* self.interval
  proc,        \* ffmpeg: none, connecting, streaming, finished, failed
  left,        \* what is left of its -t, of its connecting time, or before
               \* its launch of the setup time
  span,        \* its -t
  kills        \* how often the daemon was killed so far

disk    == <<dirs, marker, frames>>
grabber == <<proc, left, span>>
grabberVars == <<clock, cfg, disk, grabberPaused, stopping, pc, today, interval, grabber,
             kills>>

DayOf(t) == t \div DayLen
SecOf(t) == t - DayOf(t) * DayLen
NoDay    == -1

\* seconds_to_midnight: from now, whatever day the caller has in mind; at
\* least one.
ToMidnight == DayLen - SecOf(clock)

HasFrames(d) == \E f \in frames : f.day = d

-------------------------------------------------------------------------------
GrabberInit ==
  /\ clock = 0 /\ cfg \in Intervals
  /\ dirs = {} /\ frames = {} /\ marker = [d \in {} |-> 0]
  /\ grabberPaused = FALSE /\ stopping = FALSE
  /\ pc = "down" /\ today = NoDay /\ interval = 0
  /\ proc = "none" /\ left = 0 /\ span = 0 /\ kills = 0

\* ffmpeg writes a frame over whatever has its name, if its directory exists.
FrameWritten ==
  LET name == [day |-> today, sec |-> SecOf(clock)]
  IN  /\ proc = "streaming" /\ today \in dirs
      /\ frames' = {f \in frames : [day |-> f.day, sec |-> f.sec] # name}
           \cup {[day |-> today, sec |-> SecOf(clock), cadence |-> interval,
                  at |-> clock]}

\* A unit of time, in which a streaming ffmpeg may write a frame (which of the
\* units yield one is its fps filter's affair) and a connecting one may be
\* through.
PassTime ==
  /\ clock < MaxClock /\ clock' = clock + 1
  /\ FrameWritten \/ UNCHANGED frames
  /\ pc' = IF pc = "backoff" THEN "top" ELSE pc
  /\ \/ /\ proc = "streaming"
        /\ left' = left - 1
        /\ proc' = IF left = 1 THEN "finished" ELSE proc
     \/ /\ proc = "connecting" \/ pc \in {"chosen", "prepared"}
        /\ left > 0
        /\ left' = left - 1 /\ UNCHANGED proc
     \/ /\ proc = "connecting" /\ left = 0
        /\ proc' = "failed" /\ UNCHANGED left
     \/ /\ proc \notin {"connecting", "streaming"}
        /\ pc \notin {"chosen", "prepared"}
        /\ UNCHANGED <<proc, left>>
  /\ UNCHANGED <<cfg, dirs, marker, grabberPaused, stopping, today, interval, span, kills>>

\* The stream starts: from here on -t counts.
Connect ==
  /\ proc = "connecting" /\ proc' = "streaming" /\ left' = span
  /\ UNCHANGED <<clock, cfg, disk, grabberPaused, stopping, pc, today, interval, span,
                 kills>>

\* The stream drops, or ffmpeg fails for any other reason.
Die ==
  /\ proc \in {"connecting", "streaming"} /\ proc' = "failed"
  /\ UNCHANGED <<clock, cfg, disk, grabberPaused, stopping, pc, today, interval, left,
                 span, kills>>

EditConfig ==
  /\ \E c \in (Intervals \cup {Unreadable}) \ {cfg} : cfg' = c
  /\ UNCHANGED <<clock, disk, grabberPaused, stopping, pc, today, interval, grabber,
                 kills>>

PausesOrResumes ==
  /\ grabberPaused' = ~grabberPaused
  /\ UNCHANGED <<clock, cfg, disk, stopping, pc, today, interval, grabber, kills>>

\* An operator clears a day, or the encoder removes it.
RemoveDay(d) ==
  /\ d \in dirs
  /\ dirs' = dirs \ {d}
  /\ marker' = [e \in DOMAIN marker \ {d} |-> marker[e]]
  /\ frames' = {f \in frames : f.day # d}
  /\ UNCHANGED <<clock, cfg, grabberPaused, stopping, pc, today, interval, grabber,
                 kills>>

\* The main thread's backstop, for a directory of today's that exists.
RecordCadences ==
  /\ pc # "down" /\ DayOf(clock) \in dirs
  /\ WriteCadence(DayOf(clock), interval)
  /\ UNCHANGED <<clock, cfg, dirs, frames, grabberPaused, stopping, pc, today, interval,
                 grabber, kills>>

-------------------------------------------------------------------------------
(* The daemon and the supervisor thread.                                   *)

Start ==
  /\ pc = "down" /\ cfg # Unreadable
  /\ interval' = CadenceFor(DayOf(clock), cfg)
  /\ pc' = "top" /\ stopping' = FALSE
  /\ UNCHANGED <<clock, cfg, disk, grabberPaused, today, grabber, kills>>

RequestStop ==
  /\ pc # "down" /\ ~stopping /\ stopping' = TRUE
  /\ UNCHANGED <<clock, cfg, disk, grabberPaused, pc, today, interval, grabber, kills>>

\* Killed, or power lost: the control group takes ffmpeg along.
Kill ==
  /\ pc # "down" /\ kills < MaxKills /\ kills' = kills + 1
  /\ pc' = "down" /\ proc' = "none"
  /\ UNCHANGED <<clock, cfg, disk, grabberPaused, stopping, today, interval, left, span>>

ThreadEnds ==
  /\ pc \in {"top", "backoff"} /\ stopping /\ pc' = "down"
  /\ UNCHANGED <<clock, cfg, disk, grabberPaused, stopping, today, interval, grabber,
                 kills>>

\* The day is read from the clock, and its cadence settled (begin_day).
ChooseDay ==
  /\ pc = "top" /\ ~stopping /\ ~grabberPaused
  /\ today' = DayOf(clock)
  /\ interval' = CadenceFor(DayOf(clock), interval)
  /\ pc' = "chosen" /\ left' = MaxSetup
  /\ UNCHANGED <<clock, cfg, disk, grabberPaused, stopping, proc, span, kills>>

\* _prepare_day.
PrepareDay ==
  /\ pc = "chosen"
  /\ dirs' = dirs \cup {today}
  /\ WriteCadence(today, interval)
  /\ pc' = "prepared"
  /\ UNCHANGED <<clock, cfg, frames, grabberPaused, stopping, today, interval, grabber,
                 kills>>

\* A slip: -t is always a whole day.
LaunchForADay ==
  /\ pc = "prepared"
  /\ \/ /\ proc' = "connecting" /\ left' = MaxConnect /\ span' = DayLen
        /\ pc' = "supervise"
     \/ /\ proc' = "failed" /\ pc' = "ended"
        /\ UNCHANGED <<left, span>>
  /\ UNCHANGED <<clock, cfg, disk, grabberPaused, stopping, today, interval, kills>>

\* _cmd reads the clock again for -t; the launch itself may fail.
Launch ==
  /\ pc = "prepared"
  /\ \/ /\ proc' = "connecting" /\ left' = MaxConnect /\ span' = ToMidnight
        /\ pc' = "supervise"
     \/ /\ proc' = "failed" /\ pc' = "ended"
        /\ UNCHANGED <<left, span>>
  /\ UNCHANGED <<clock, cfg, disk, grabberPaused, stopping, today, interval, kills>>

\* _supervise: the process is gone by itself, or is ended.
SuperviseSees ==
  /\ pc = "supervise" /\ proc \in {"finished", "failed"}
  /\ pc' = "ended"
  /\ UNCHANGED <<clock, cfg, disk, grabberPaused, stopping, today, interval, grabber,
                 kills>>

\* A slip: a supervisor that looks at STOP only.
SuperviseEndsOnStop ==
  /\ pc = "supervise" /\ proc \in {"connecting", "streaming"}
  /\ stopping
  /\ proc' = "none" /\ pc' = "ended"
  /\ UNCHANGED <<clock, cfg, disk, grabberPaused, stopping, today, interval, left, span,
                 kills>>

\* The stop, or the disk guard's pause, is seen at the next poll.
SuperviseEnds ==
  /\ pc = "supervise" /\ proc \in {"connecting", "streaming"}
  /\ stopping \/ grabberPaused
  /\ proc' = "none" /\ pc' = "ended"
  /\ UNCHANGED <<clock, cfg, disk, grabberPaused, stopping, today, interval, left, span,
                 kills>>

\* The next launch: at once after a rc=0, the planned handover at midnight, and
\* otherwise after RECONNECT_BACKOFF.
AfterTheRun ==
  /\ proc' = "none"
  /\ pc' = IF proc = "finished" THEN "top" ELSE "backoff"

\* _discard_empty_day: only a directory without a frame is taken back.
Discard ==
  /\ pc = "ended" /\ AfterTheRun
  /\ IF HasFrames(today)
     THEN UNCHANGED <<dirs, marker>>
     ELSE /\ dirs' = dirs \ {today}
          /\ marker' = [d \in DOMAIN marker \ {today} |-> marker[d]]
  /\ UNCHANGED <<clock, cfg, frames, grabberPaused, stopping, today, interval, left,
                 span, kills>>

-------------------------------------------------------------------------------
GrabberNext ==
  \/ PassTime \/ Connect \/ Die \/ EditConfig \/ PausesOrResumes
  \/ \E d \in dirs : RemoveDay(d)
  \/ RecordCadences \/ Start \/ RequestStop \/ Kill \/ ThreadEnds
  \/ ChooseDay \/ PrepareDay \/ Launch
  \/ SuperviseSees \/ SuperviseEnds \/ Discard

GrabberSpec == GrabberInit /\ [][GrabberNext]_grabberVars

\* The thread's own steps are never held up: each is a poll or a plain call.
GrabberFairSpec ==
  /\ GrabberSpec
  /\ WF_grabberVars(ThreadEnds) /\ WF_grabberVars(ChooseDay) /\ WF_grabberVars(PrepareDay)
  /\ WF_grabberVars(Launch) /\ WF_grabberVars(SuperviseSees) /\ WF_grabberVars(SuperviseEnds)
  /\ WF_grabberVars(Discard)

-------------------------------------------------------------------------------
(* Properties.                                                             *)

Frame == [day : Int, sec : Nat, cadence : Intervals, at : Nat]

\* The type invariant.
GrabberTypeOK ==
  /\ clock \in 0..MaxClock /\ cfg \in Intervals \cup {Unreadable}
  /\ dirs \subseteq Int /\ DOMAIN marker \subseteq dirs
  /\ \A d \in DOMAIN marker : marker[d] \in Intervals
  /\ frames \subseteq Frame
  /\ grabberPaused \in BOOLEAN /\ stopping \in BOOLEAN
  /\ pc \in {"down", "top", "chosen", "prepared", "supervise", "ended", "backoff"}
  /\ today \in Int /\ interval \in Intervals \cup {0}
  /\ pc # "down" => interval \in Intervals
  /\ proc \in {"none", "connecting", "streaming", "finished", "failed"}
  /\ proc = "streaming" => left > 0
  /\ left \in Int /\ span \in 0..DayLen /\ kills \in 0..MaxKills

\* "One day, one cadence" for a grabber that is relaunched, paused and killed
\* within a day: a day's frames are all of the cadence its marker records, the
\* marker that _discard_empty_day takes back included.
FramesMatchMarker ==
  \A f \in frames : f.day \in DOMAIN marker /\ marker[f.day] = f.cadence

\* A camera that delivers nothing leaves no directory behind for the encoder to
\* skip every night, unless the daemon was killed before it took it back.
NoEmptyDays ==
  kills = 0 =>
    \A d \in dirs : HasFrames(d) \/ (d = today /\ pc \in {"prepared", "supervise", "ended"})

\* PAUSED reaches a grabber that is already running: while the disk guard holds
\* capture, no ffmpeg goes on filling the disk (_supervise).
PauseStopsGrabber == <>[]grabberPaused => <>[](proc = "none")

\* STOP reaches it too, and the thread ends without leaving it behind.
StopEndsThread == [](stopping => <>(pc = "down" /\ proc = "none"))

\* "-t bounds this process to one day, which is what makes a fixed day correct"
\* (_cmd): but for the time it takes to connect, nothing is filed under a day
\* that is over.
BoundedToItsDay ==
  \A f \in frames : f.at <= (f.day + 1) * DayLen + MaxConnect

\* What the code does bound: a launch that midnight overtook is given the next
\* day as well, and files it under the day before, but no day after it.
OverrunBounded ==
  \A f \in frames : f.at < (f.day + 2) * DayLen + MaxConnect
===============================================================================
