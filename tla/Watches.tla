-------------------------------- MODULE Watches -------------------------------
(***************************************************************************)
(* The other two watches of the timer (scripts/timelapse_encode.py, main   *)
(* with --watch): the silent cameras (watch_cameras) and the NVIDIA driver *)
(* (watch_gpu_driver).  Each reads what others published, sends one        *)
(* message when something starts and one when it is over, and remembers in *)
(* its section of notified.json what it has said (save_notified).  Time    *)
(* comes in units of CAPTURE_STALE, the five minutes between two watches.  *)
(* CredentialWatch has the third watch.                                    *)
(***************************************************************************)
EXTENDS Integers, FiniteSets

CONSTANTS
  Cameras,      \* the cameras
  SilentAfter,  \* silence_limit: ten minutes, or ten of the camera's intervals
  Stale,        \* CAPTURE_STALE
  WatchEvery,   \* GPU_CHECK_EVERY
  Versions,     \* bound: driver versions there are, 1..Versions
  MaxRecordLosses \* bound: how often a record is lost after its message

ASSUME WatchesAssumption ==
  /\ SilentAfter \in Nat /\ Stale \in Nat /\ WatchEvery \in Nat \ {0}
  /\ Versions \in Nat \ {0} /\ MaxRecordLosses \in Nat
  /\ Stale < SilentAfter

\* A camera is not mistaken for a pair of versions.
ASSUME NamesAssumption == Cameras \cap (Nat \X Nat) = {}

Unknown == 0       \* a version that cannot be read
NoPair  == <<>>    \* no mismatch on record
Pairs   == (1..Versions) \X (0..Versions)   \* loaded -> installed

VARIABLES
  cam,       \* of each camera: delivers, refuses our credentials, is gone
  enabled,   \* the cameras enabled in the config
  captured,  \* the cameras the running daemon started with
  running,   \* the daemon is running
  watchPaused, \* its disk guard has paused capture
  age,       \* of each camera: the age of its newest frame, as far as it matters
  asked,     \* history: how long this daemon has asked it for a frame and got none; no
             \* camera is asked under a pause
  interrupted, \* history: the cameras this daemon had to pause since their last frame
  beat,      \* capture.json: [running, paused, cameras, auth]
  beatAge,   \* time.time() - updated_epoch
  beatUp,    \* time.time() - started
  silent,    \* notified.json: the cameras reported silent
  driver,    \* the driver: [loaded, installed, mixed, smi]
  pair,      \* notified.json: gpu.mismatch
  checked,   \* time.time() - gpu.checked_epoch
  unwritten, \* a watch between its message and save_notified: what it will save
  recordLosses, \* how many records were lost
  open       \* history: what an alarm was sent for and no all-clear

capture == <<cam, enabled, captured, running, watchPaused, age, asked, interrupted>>
heart   == <<beat, beatAge, beatUp>>
record  == <<silent, pair, checked>>
watchVars == <<capture, heart, record, driver, unwritten, recordLosses, open>>

Older(a, limit) == IF a > limit THEN a ELSE a + 1     \* an age, one unit on
Nothing == [of |-> "nothing"]

WatchesInit ==
  /\ cam \in [Cameras -> {"ok", "refuses", "gone"}]
  /\ enabled \in SUBSET Cameras /\ captured = {} /\ running = FALSE /\ watchPaused = FALSE
  /\ age = [c \in Cameras |-> SilentAfter + 1] /\ asked = [c \in Cameras |-> 0]
  /\ interrupted = {}
  /\ beat = [running |-> FALSE, paused |-> FALSE, cameras |-> {}, auth |-> {}]
  /\ beatAge = Stale + 1 /\ beatUp = SilentAfter + 1
  /\ silent = {} /\ pair = NoPair /\ checked = WatchEvery
  /\ \E v \in {Unknown, 1}, smi \in BOOLEAN :
       driver = [loaded |-> v, installed |-> v, mixed |-> FALSE, smi |-> smi]
  /\ unwritten = Nothing /\ recordLosses = 0 /\ open = {}

-------------------------------------------------------------------------------
(* Cameras, the daemon and its heartbeat.                                  *)

CameraTurns ==
  /\ \E c \in Cameras, s \in {"ok", "refuses", "gone"} :
       s # cam[c] /\ cam' = [cam EXCEPT ![c] = s]
  /\ UNCHANGED <<enabled, captured, running, watchPaused, age, asked, interrupted, heart, record,
                 driver, unwritten, recordLosses, open>>

\* The operator enables or disables a camera; the daemon learns of it when it
\* is restarted.
Configure ==
  /\ \E c \in Cameras :
       enabled' = IF c \in enabled THEN enabled \ {c} ELSE enabled \cup {c}
  /\ UNCHANGED <<cam, captured, running, watchPaused, age, asked, interrupted, heart, record,
                 driver, unwritten, recordLosses, open>>

\* A captured camera that answers: its frame.
FrameLands(c) ==
  /\ running /\ ~watchPaused /\ c \in captured /\ cam[c] = "ok"
  /\ age' = [age EXCEPT ![c] = 0] /\ asked' = [asked EXCEPT ![c] = 0]
  /\ interrupted' = interrupted \ {c}
  /\ UNCHANGED <<cam, enabled, captured, running, watchPaused, heart, record, driver, unwritten,
                 recordLosses, open>>

\* capture_state: what the heartbeat says.
Beat(says, cameras) ==
  /\ beat' = [running |-> says, paused |-> watchPaused', cameras |-> cameras,
              auth |-> {c \in cameras : cam[c] = "refuses"}]
  /\ beatAge' = 0

\* write_state, once a minute.
WriteBeat ==
  /\ running /\ watchPaused' = watchPaused
  /\ Beat(TRUE, captured)
  /\ UNCHANGED <<cam, enabled, captured, running, age, asked, interrupted, beatUp, record,
                 driver, unwritten, recordLosses, open>>

\* run_daemon: the cameras enabled now, and a heartbeat at once.
DaemonStarts ==
  /\ ~running /\ enabled # {} /\ running' = TRUE /\ captured' = enabled /\ watchPaused' = FALSE
  /\ asked' = [c \in Cameras |-> 0] /\ interrupted' = {}
  /\ Beat(TRUE, enabled) /\ beatUp' = 0
  /\ UNCHANGED <<cam, enabled, age, record, driver, unwritten, recordLosses, open>>

\* A clean end says so; a kill says nothing.
DaemonStops ==
  /\ running /\ running' = FALSE /\ watchPaused' = watchPaused
  /\ Beat(FALSE, captured) \/ UNCHANGED <<beat, beatAge>>
  /\ UNCHANGED <<cam, enabled, captured, age, asked, interrupted, beatUp, record, driver,
                 unwritten, recordLosses, open>>

PauseToggled ==
  /\ running /\ watchPaused' = ~watchPaused
  /\ interrupted' = IF watchPaused' THEN captured ELSE interrupted
  /\ UNCHANGED <<cam, enabled, captured, running, age, asked, heart, record, driver,
                 unwritten, recordLosses, open>>

\* A unit of time: in it the daemon writes its heartbeat, and a camera that
\* answers delivers.
MinutePasses ==
  /\ running => beatAge = 0
  /\ \A c \in captured : running /\ ~watchPaused /\ cam[c] = "ok" => age[c] = 0
  /\ age' = [c \in Cameras |-> Older(age[c], SilentAfter)]
  /\ asked' = [c \in Cameras |-> IF running /\ ~watchPaused /\ c \in captured
                                 THEN Older(asked[c], SilentAfter) ELSE asked[c]]
  /\ beatAge' = Older(beatAge, Stale) /\ beatUp' = Older(beatUp, SilentAfter)
  /\ checked' = IF checked < WatchEvery THEN checked + 1 ELSE checked
  /\ UNCHANGED <<cam, enabled, captured, running, watchPaused, interrupted, beat, silent, pair, driver,
                 unwritten, recordLosses, open>>

-------------------------------------------------------------------------------
(* watch_cameras.                                                          *)

\* A slip: a heartbeat is a heartbeat.
BeatAtAnyAge == beat.running

\* read_capture_state: a heartbeat that says something about now.
BeatFresh == beat.running /\ beatAge <= Stale

\* A camera that should deliver and does not, for longer than a restart of the
\* daemon or of the camera would explain.
Silent(c)     == age[c] > SilentAfter /\ beatUp > SilentAfter
Delivering(c) == age[c] <= SilentAfter

\* A camera the credential watch speaks for.
LeftToCredentials(c) == c \in beat.auth

\* A slip: noticed is recorded, whether or not anybody was told.
RecordedAnyway(news, taken) == news

\* "Nothing delivered is not already told them": what no sink took is as if it had
\* not been noticed.
Recorded(news, taken) == IF taken THEN news ELSE {}

\* One look at the cameras, of which some directories cannot be read: an alarm
\* for those newly silent, an all-clear for those back, each taken by a sink or
\* not.
WatchCameras(unread, alarm, clear) ==
  LET still == silent \cap enabled
      new   == {c \in enabled \ (unread \cup still) :
                  Silent(c) /\ ~LeftToCredentials(c)}
      back  == {c \in still \ unread : Delivering(c)}
      next  == (still \cup Recorded(new, alarm)) \ Recorded(back, clear)
      told  == IF alarm THEN new ELSE {}
      over  == (silent \ enabled) \cup IF clear THEN back ELSE {}
  IN  /\ unwritten = Nothing /\ BeatFresh /\ ~beat.paused
      /\ next # silent
      /\ unwritten' = [of |-> "cameras", silent |-> next]
      /\ open' = (open \ over) \cup told
      /\ UNCHANGED <<capture, heart, record, driver, recordLosses>>

-------------------------------------------------------------------------------
(* watch_gpu_driver.                                                       *)

\* The package is upgraded under the loaded module, at once or leaving libraries
\* of both versions; a restart of the machine loads what is installed.
Upgrade ==
  /\ driver.loaded # Unknown /\ driver.installed < Versions
  /\ \E mixed \in BOOLEAN :
       driver' = [driver EXCEPT !.installed = @ + 1, !.mixed = mixed]
  /\ UNCHANGED <<capture, heart, record, unwritten, recordLosses, open>>

UpgradeEnds ==
  /\ driver.mixed /\ driver' = [driver EXCEPT !.mixed = FALSE]
  /\ UNCHANGED <<capture, heart, record, unwritten, recordLosses, open>>

Restart ==
  /\ driver.loaded # driver.installed /\ ~driver.mixed
  /\ driver' = [driver EXCEPT !.loaded = driver.installed]
  /\ UNCHANGED <<capture, heart, record, unwritten, recordLosses, open>>

Mismatch == driver.loaded # driver.installed

\* driver_state: the version files; where they do not say, nvidia-smi, which a
\* sandboxed unit may not reach the device with; no driver is no question.
DriverState ==
  IF driver.loaded # Unknown /\ ~driver.mixed
  THEN [verdict |-> IF Mismatch THEN "differ" ELSE "same",
        pair |-> <<driver.loaded, driver.installed>>]
  ELSE [verdict |-> IF driver.loaded = Unknown \/ ~driver.smi THEN "unknown"
                    ELSE IF Mismatch THEN "differ" ELSE "same",
        pair |-> <<driver.loaded, Unknown>>]

\* What has not been reported: this pair of versions.
NewMismatch(d) == d.verdict = "differ" /\ pair # d.pair

Saving(p, epoch) == unwritten' = [of |-> "driver", pair |-> p, checked |-> epoch]

\* One look at the driver, an hour after the last: a message for a pair of versions
\* not reported yet, an all-clear when they match again.  A message that no sink
\* took is tried again by the next watch, so the time of the check is not moved;
\* with no sink configured nothing is reported, and an incident is closed.
WatchDriver(sinks) ==
  /\ unwritten = Nothing /\ checked >= WatchEvery
  /\ LET d    == DriverState
         news == NewMismatch(d) \/ (d.verdict = "same" /\ pair # NoPair)
         next == IF d.verdict = "differ" THEN d.pair ELSE NoPair
     IN  IF news /\ (sinks = "take" \/ (sinks = "none" /\ d.verdict = "same"))
         THEN Saving(next, 0) /\ open' = (open \ Pairs) \cup ({next} \ {NoPair})
         ELSE /\ Saving(pair, IF news /\ sinks = "refuse" THEN checked ELSE 0)
              /\ UNCHANGED open
  /\ UNCHANGED <<capture, heart, record, driver, recordLosses>>

-------------------------------------------------------------------------------
\* A slip: a watch writes its own section and nothing else.
SaveOneSection ==
  /\ unwritten # Nothing /\ unwritten' = Nothing
  /\ IF unwritten.of = "cameras"
     THEN silent' = unwritten.silent /\ pair' = NoPair /\ checked' = WatchEvery
     ELSE silent' = {} /\ pair' = unwritten.pair /\ checked' = unwritten.checked
  /\ UNCHANGED <<capture, heart, driver, recordLosses, open>>

\* save_notified: the watch's section, the others as they are.
SaveNotified ==
  /\ unwritten # Nothing /\ unwritten' = Nothing
  /\ IF unwritten.of = "cameras"
     THEN silent' = unwritten.silent /\ UNCHANGED <<pair, checked>>
     ELSE pair' = unwritten.pair /\ checked' = unwritten.checked /\ UNCHANGED silent
  /\ UNCHANGED <<capture, heart, driver, recordLosses, open>>

\* notified.json cannot be written, or the watch is killed after its message.
RecordLost ==
  /\ unwritten # Nothing /\ recordLosses < MaxRecordLosses
  /\ unwritten' = Nothing /\ recordLosses' = recordLosses + 1
  /\ UNCHANGED <<capture, heart, record, driver, open>>

Surroundings ==
  \/ CameraTurns \/ Configure \/ PauseToggled \/ DaemonStops
  \/ Upgrade \/ UpgradeEnds \/ Restart
WatchStep ==
  \/ \E unread \in SUBSET Cameras, alarm, clear \in BOOLEAN :
       WatchCameras(unread, alarm, clear)
  \/ \E sinks \in {"take", "refuse", "none"} : WatchDriver(sinks)
  \/ SaveNotified \/ RecordLost

WatchesNext ==
  \/ Surroundings \/ DaemonStarts \/ WriteBeat \/ MinutePasses \/ WatchStep
  \/ \E c \in Cameras : FrameLands(c)

\* Time passes, the daemon is started again and writes its heartbeat, a camera
\* that answers delivers; the timer runs the watch, between two looks of which
\* the heartbeat is written several times, and (external) no sink refuses
\* every message.
WatchesFairness ==
  /\ WF_watchVars(MinutePasses) /\ WF_watchVars(DaemonStarts)
  /\ WF_watchVars(WriteBeat) /\ WF_watchVars(SaveNotified)
  /\ \A c \in Cameras : WF_watchVars(FrameLands(c))
  /\ SF_watchVars(WatchCameras({}, TRUE, TRUE)) /\ SF_watchVars(WatchDriver("take"))

WatchesSpec == WatchesInit /\ [][WatchesNext]_watchVars /\ WatchesFairness

-------------------------------------------------------------------------------
(* Properties.                                                             *)

\* The type invariant.
WatchesTypeOK ==
  /\ cam \in [Cameras -> {"ok", "refuses", "gone"}]
  /\ enabled \subseteq Cameras /\ captured \subseteq Cameras
  /\ running \in BOOLEAN /\ watchPaused \in BOOLEAN
  /\ age \in [Cameras -> 0..(SilentAfter + 1)]
  /\ asked \in [Cameras -> 0..(SilentAfter + 1)] /\ interrupted \subseteq Cameras
  /\ beat \in [running : BOOLEAN, paused : BOOLEAN, cameras : SUBSET Cameras,
               auth : SUBSET Cameras]
  /\ beatAge \in 0..(Stale + 1) /\ beatUp \in 0..(SilentAfter + 1)
  /\ silent \subseteq Cameras /\ pair \in Pairs \cup {NoPair} /\ checked \in 0..WatchEvery
  /\ driver \in [loaded : 0..Versions, installed : 0..Versions, mixed : BOOLEAN,
                 smi : BOOLEAN]
  /\ unwritten \in {Nothing} \cup [of : {"cameras"}, silent : SUBSET Cameras]
                 \cup [of : {"driver"}, pair : Pairs \cup {NoPair}, checked : 0..WatchEvery]
  /\ recordLosses \in 0..MaxRecordLosses /\ open \subseteq Cameras \cup Pairs

\* A camera is reported silent once: again only after its all-clear, unless a record
\* was lost, whatever the other watches write into the same file.
SilenceToldOnce ==
  [][\A c \in Cameras :
       unwritten = Nothing /\ unwritten' # Nothing /\ unwritten'.of = "cameras" =>
         (c \in unwritten'.silent \ silent => c \notin open \/ recordLosses > 0)]_watchVars

\* A restart of the daemon, or a heartbeat that outlives it, never makes a camera it
\* captures look silent: who is reported had been asked in vain by this daemon for
\* ten minutes, less the five that the heartbeat may be old.  Excepted is a camera
\* that was not asked for a pause since its last frame: watch_cameras says nothing
\* under a pause, and then takes the frame from before it for its age.  (A camera
\* enabled after the daemon started is reported as not being captured:
\* silence_reason.)
AlarmIsEarned ==
  [][\A c \in captured \ interrupted :
       c \in open' \ open => asked[c] + Stale > SilentAfter]_watchVars

\* A camera that is gone for good is on the record in the end, and not without an alarm
\* since its last all-clear (unless the record of one was lost), also one that the
\* daemon never asked because it was enabled later; and one that delivers for
\* good is off the record.
SilenceReported ==
  \A c \in Cameras :
    /\ <>[](running /\ ~watchPaused /\ c \in enabled /\ cam[c] = "gone")
         => <>[](c \in silent /\ (c \in open \/ recordLosses > 0))
    /\ <>[](running /\ ~watchPaused /\ c \in captured /\ cam[c] = "ok") => <>[](c \notin silent)

\* A driver that waits for a restart is reported in the end, and the restart too; of
\* a driver it cannot see the watch keeps what it knew.
DriverReported ==
  /\ <>[](Mismatch /\ ~driver.mixed)
       => <>[](pair = <<driver.loaded, driver.installed>> /\ (pair \in open \/ recordLosses > 0))
  /\ <>[](driver.loaded # Unknown /\ ~Mismatch) => <>[](pair = NoPair)
===============================================================================
