# A TLA+ model of timelapse-maker

TLA+ modules, TLC runs and TLAPS proofs about timelapse-maker: a daemon that captures a frame per
camera and interval, a nightly run that encodes a day of frames into a video and ships it, the watches
that report trouble, a web UI, and the tools that configure all of it. All modules are translated from
the Python source in `src/scripts/`; `PROJECT.json` maps every definition to the lines it stands for.

Contents: [the system](#the-system), [the modules](#the-modules), [the runs](#the-runs),
[fairness](#fairness), [the proofs](#the-proofs), [what was found](#where-the-code-and-its-documents-disagree),
[what is not modelled](#not-modelled).

## The system

The programs share a disk and little else. They hardly ever call one another: the capture daemon writes
frames, markers and a heartbeat; the encode run reads frames and markers and deletes them; the
watch reads the heartbeat; the web server reads everything; the setup tools write the configuration
and ask the service manager to restart what reads it.

```
 cameras --HTTP/RTSP--> capture daemon --frames, .cadence.json--> frames_root/<camera>/<day>/
                          |   ^ PAUSED                                 |        ^
                          |   +-- disk guard                           v        | rmtree
                          |                                        encode run --+-- .encoded.json
                          +-- capture.json (heartbeat)                 |
                                 |                                     +-> video_output --transfer--> library
                                 v                                     +-> encode.json (run history)  |
                              watches --> messages, notified.json                                     v
                                                             web server: scan, index, videos, overview, login
 wizard, camera menu --> config.json, backups --> read at the start of each program   |
        |                                                                              +-- update checker
        +-- service host (Windows) / systemd: start, stop, restart of the daemon
```

| Component | Source | State | Operations | Hard behaviour | Correct when |
|---|---|---|---|---|---|
| HTTP capture | `timelapse_capture.py` 485-1089 | the planned tick, the day and cadence adopted, the error state and back-off, the frames and markers on disk | plan/wait/resync/fire, roll the day, grab, retry once, climb the ladder of refusals | a stepped clock, the hour that repeats, edits and restarts in mid-day, directories that vanish, budgets | one cadence per day; ticks on the grid and in order; no frame overwritten; a camera is not hammered and not forgotten |
| RTSP capture | 1096-1336 | the ffmpeg process, its day and `-t`, the back-off, the thread | launch, supervise, stop, relaunch, discard an empty day | midnight between two reads of the clock, ffmpeg's own sense of time, stop and pause while it starts | one cadence per day; pause and stop reach it; no frame overwritten |
| Disk guard | 1343-1382 | PAUSED | one reading of the disk each 300 s (`DISK_CHECK_EVERY`) | others use the disk; a reading fails | a reserve is kept; no flapping; capture resumes |
| Capture daemon | 1387-1618 | the threads, the heartbeat | start, record the cadences, write the heartbeat, stop | the heartbeat outlives its daemon | the heartbeat says what is |
| Credential watch | `timelapse_encode.py` 2400-2532 | a section of `notified.json` | read the heartbeat, tell, save | stale heartbeats, lost messages, a lost record, restarts | each incident told once, and only confirmed ones |
| Silent-camera and driver watches | 2610-2859 | sections of the same record | the same for cameras without frames and a driver that waits for a reboot | a restart or a pause looks like silence; a driver that cannot be asked | silence told once, in the end, and never of a camera that was not asked |
| Encode run | 1060-1105, 1374-1536, 2979-3427 | markers, videos, the run's job list | find the pending days, encode, mark, delete | a second run, a lock that cannot be taken, a kill anywhere, a failing deletion, midnight, late frames, the cap | no frame lost; a day encoded once; no day stranded |
| Transfer | 1551-2157, `timelapse_platform.py` 2434-2484 | `video_output`, the destination, the session at the share | rsync, or on Windows connect, copy, compare, replace, delete; the checks of both | a share that goes away, a kill anywhere, partial files, one identity per session | the newest video is never lost, and never half there; a check answers for what it asks |
| Run history | 1208-1283, 3043-3110 | `encode.json` | record a run, report cameras without frames, explain an idle run | the history is bounded, may be unreadable or never written | a row is true, and told once |
| Library index | `timelapse_web.py` 318-735 | an SQLite table, the scan in progress | scan, re-read a folder or a file | a scan and requests write what they read earlier; the share is not mounted | no row is lost to a scan but those of files that were gone; the index converges to the disk |
| Update checker and updater | 1025-1192, `timelapse_update.py` | the last answer, its cache, the version installed | check when due, back off, remember; install | two threads save at once, restarts, an upgrade under a running service | the panel never claims what is not; a release is noticed |
| Sessions | 1849-1969 | tokens, when last seen | log in, log out, touch, prune | the bound on the table, requests that race logouts and restarts | no page without the password |
| Web pages | 829-1024, 1288-1800, 2240-3433 | a listing kept for 20 s | send a video by ranges; make the overview | a file replaced while it is sent; listings and heartbeats of different ages | a download is of one encode and as long as promised; the overview is never greener than the cameras |
| Configuration store | `timelapse_setup.py` 4371-4671, 1892-2161 | `config.json` and its copies | write, back up, prune, restore, edit, offer a restart | several terminals, saves in one second, copies that fail half way, a daemon on the old file | the copies are in order; what was said of the daemon is so |
| Camera menu, graphical wizard | `timelapse_setup.py` 1292-1660, `timelapse_gui.py` | the list in hand; a draft and a pane that shows a copy of a part of it | add, remove, rename, disable; test, save, next, back | days that wait under the old name; a draft that changes behind the pane | no frames stranded unannounced; what is saved is what answered |
| Service host | `timelapse_platform.py` 603-945, 1405-1453 | what the service manager holds, its failure actions, the process | start, stop, report; install, restart, remove | two threads report; a queued restart and a stop meet | a crash comes back, a stop does not, a restart is of the new settings |
| Lock | `timelapse_platform.py` 1660-1705 | an OS lock | take, gone with the process | it cannot be attempted, and the run goes on | one run at a time, where there is a lock |
| CLI, pre-flight, installers | the rest | files | sequential | - | - |

What is hard to test in this code is listed in `PROJECT.json` under `hazards`, each with the line where
it bites and the properties that would catch it.

## The modules

Time is abstract everywhere: an interval is two or three units, a day is a handful of them. What
matters are the orders and the boundaries: at, just before, just after.

### Capture

**TickGrid** has the arithmetic of the ticks as operators: `NextSlot`, `NextBoundary`, `TickPlan`,
`CameraTimeout` and `RetryTimeout` are `next_slot`, `next_boundary`, `tick_plan`, `camera_timeout` and
`_retry_timeout`. **DayCadence** has the rule of the day's marker (`begin_day`, `write_cadence`,
`config_cadence`), which both kinds of camera share.

**HttpCapture** is one camera's thread. The state is a clock (`real` time and the `skew` of the wall
clock), the configuration, the disk (frames by day and name, with the cadence each was captured at;
markers), and the thread's own variables. One action is one stretch of the loop between two points
where something else may happen: `Plan` (the first slot), `Wait`, `Resync`, `FireTick` (which rolls the
day first, as `_roll_day` does), and then one of the `Grab...` actions for what became of the tick: a
frame landed, the attempt failed, the directory had vanished, or the marker came and the frame did not. The
environment steps the clock, edits the configuration, removes a day (the encoder) and starts and stops the daemon.
`RecordCadences` is the daemon's `record_cadences` before the threads start.

**AuthBackoff** is the same loop seen by the camera's account: what an attempt answers, the strikes
(`err_ticks`), the rungs (`auth_backed_off`, `auth_confirmed`), and the deadline of the silence. Since only the
distance to the deadline is ever compared, the module keeps that (`quiet`) instead of the clock. `refusals` and
`silence` are history: the ages of the attempts the camera has refused, and how long no attempt was made.

**FetchBudget** is the inside of one tick: the operations of one fetch and of its one retry, each with a
duration, against the deadline.

**RtspGrabber** is the supervisor's loop (`ChooseDay`, `PrepareDay`, `Launch`, `SuperviseSees`, `SuperviseEnds`,
`AfterTheRun`, `Discard`, `ThreadEnds`) beside the process it supervises, whose behaviour (`Connect`, `Die`, frames as
time passes) is external and modelled from the command line it is given.

**DiskGuard** is `check_once` and its loop, against a disk that fills and empties.

### The watches

**CredentialWatch** extends AuthBackoff by the heartbeat (`error_state`, `write_state`, and its age),
the watch's `watch_credentials` and its record. The ladder is composed, not abstracted: a `DaemonStep` is a tick of
AuthBackoff.

**Watches** has the two others, over the record they share: `WatchCameras` (`watch_cameras`, with `silence_limit`
and everything that keeps a camera from being judged: a heartbeat that is old, paused, or too young, a refusal
that the credential watch reports) and `WatchDriver` (`watch_gpu_driver`). A watch is two steps, the messages and then
`SaveNotified`, and may be lost between them. `asked` is history: how long the daemon has asked a camera in vain,
which is what a message about silence ought to mean. It does not grow in a pause; `interrupted` are the cameras that a pause
has kept from delivering since their last frame.

### Encoding

**EncodeRun** has the frames, directories, markers and videos of every camera-day and any number of runs.
`Begin` is `take_lock` and `find_pending`, `Take` is `valid_frames`, `EncodeDone`/`EncodeFails` ffmpeg with the `.part` file,
then `Mark` and `Delete`/`KeepFrames` as two steps because a run may be killed between them, then `Ship` or
`ShipInterrupted` per video, and `End`. `Crash` is possible at every point. The lock has its three answers: taken, held (no run),
and unavailable, after which the run goes on without (`LockMayFail`), so that two runs may be at one day, write one `.part` and
ship one video. Capture is the environment: frames of today, and, with `LateFrames`, frames filed under the day before by a fetch that
midnight came into or an ffmpeg that runs past it (`CaptureLate`).

What three things do to a day while a run has it in hand, the code does not keep them from doing: a second run comes to it (`Meeting`),
its midnight does, or a late frame (`Overtaken`). The history `crossed` has these days and no others, and the properties are about the
rest, `Undisturbed`. All three may happen in the run MCEncode, to other days and to the same day before and after.

**FrameCustody** is what the pair of capture and encode promises and the code nowhere says: frames are added and never
lost, and a day whose frames were deleted gets no more of them, until the day is disturbed, which is nothing to the other days. EncodeRun
implements it with `kept` = the frames that exist as a file, in `video_output` or in the library, and `disturbed` = `crossed`.

**Delivery** is how one finished video leaves, in the detail that EncodeRun's `Ship` hides. A file is its encode, its
length, its full length and its time. On Windows: `ReachAsWeAre` and `ReachConnecting` (`reach_destination`,
`connect_share`), then per video `MoveNext` (`already_there`), `CopyStarts`, `CopyEnds`, `Compare`, `Replace`, `Unlink` or
`Fail` (`move_video`). On Linux: `LookAtMount` (`mount_problem`), `RsyncFile`, `RsyncFails` (what `--partial` leaves),
`RsyncDone`, `DropOriginal`. `Kill` is possible at every point, and the share comes and goes. `under` is what rsync
writes into the directory that an unmounted share lays bare. Beside the transfer run `verify_share_credentials`
(`VerifyStart`, `VerifyConnect`, `VerifyTry`), in one logon session with whatever else connects to that server, and
`probe_rsync_flags`, an operator over who asks. `disconnect_share` may fail, and nobody looks at its result: `Disconnected` leaves the
session as it was, also one that was made with a password that has changed since (`PasswordChanges`). `Encode` stands between two transfers
only; a run without the lock that encodes while another ships is in EncodeRun (`Ship` of a crossed day).

**RunHistory** is a run as seen from its record: `find_pending` decides the days, `Missing` (`missing_days`) the rows of
enabled cameras without any frames, and `WriteRuns` (`write_run_state`) keeps the newest `MAX_RUNS`. Runs end (`EndRun`),
fail (`Abort`, which drops those rows), are killed, or find nothing to do and say why (`EndIdleRun`, `explain_idle`). `lost` is
history: the camera-days of which the record says nothing any more, because the run was killed or `encode.json` could not be
read or written or has forgotten them; idle runs push history out, too.

### The web UI

**LibraryIndex** has the table, the tree on the share and the mount, which is up, fails at any read, is gone, or is an empty directory.
The scan worker waits (`LibraryUnreadable`, `LibraryFound`), reads one directory at a time (`ListDirectory`), makes rows of its entries
(`TakeEntry`), writes them in batches (`Flush`) and deletes what it did not see (`Prune`). A request reads first (`OpenFile`, or
`OpenFolder` and `StatEntries`) and writes later (`Show`), as one write where `reconcile_dir` commits the new rows and the deletions one
after the other. `steady` and `missed` are history: whether the mount has stayed what it was during the walk, and which
files were missing at some time in it.

**Updates** is `UpdateChecker` and `timelapse update`. `Refresh` is a page viewed or a button pressed; the thread that asks GitHub ends in
one of the answers, and saves in two steps (`WriteTmp`, `PutInPlace`), outside the lock, so that a second thread may save between
them. A restart reads the cache back. The command asks, looks, and replaces the program under the running service. `tried`,
`heard` and `streak` are history: the requests as they really went.

**Sessions** is class `Auth` and the gate of `do_GET`/`do_POST`. A request is two steps, the gate and the answer, so that
logouts, restarts and the table's bound fall between them; `made`, `ended` and `unused` say what each token really is worth.

**VideoServing** is one video between the encoder that replaces it and a player that seeks, breaks off and resumes: `Ask`, the stat with
its ETag and range, the open, and `_pump` byte by byte. The headers are made of a row of the index, which `Stat` takes from all that the
file has been (`past`), because the write of the fresh one may be refused or overtaken. `got` is what the player has assembled under one ETag;
`stale`, `raced` and `scribbled` are history.

**StatusPage** is the overview's verdict on a camera, from the listing (up to `COUNT_TTL` old), the heartbeat (up to a minute
old, or older than its daemon) and the clock; where no frame of today or yesterday is found, from the silence the heartbeat had
(`Quiet`; such a row is `was ok` here and green on the page). And `describe_unit` on what systemd says of a service.

### Setup

**ConfigStore** is `config.json` with its rotation of copies, and terminals whose sessions read, ask for minutes and write:
the camera menu, restore, the full wizard and the editor. `CopyAside` copies and prunes, and a removal may fail; `CopyFails` leaves a copy that is
torn or whole, and prunes nothing; `NoCopy` leaves none. The daemon is capture: it is started, reads the file, is shown as running, and ends.
After a write, `OfferRestart` is `restart_capture_if_running` as far as its question, over what `service_is_active` says
(`ActiveSays`), and `Answered` is the answer. `said` is history: the last thing an operator was told of capture and this file.
Two saves at the same moment are excluded (`Saving`): both would write `config.json.tmp`.

**CameraRoster** is the camera menu against the three who go by a camera's name: the daemon with the list it started
with, the nightly run with the names the file lists as enabled, and the operator who is warned (`warn_stranded`) before days that
wait are left behind. `pending_days` says that no days wait where the directory is not there, and where it cannot be read: `PendingDays`
has both, and `unseen` is history: the days a question was asked about without seeing them.

**Wizard** is the graphical wizard: one draft, and a pane that edits a copy of one camera while Save, Test, Next and a click
elsewhere read or write the entry itself (`OnCameras`); the destination page with its own test (`TypeShare`, `TestShare`,
`NextFromShare`); and the way between them, Back included.

**ServiceHost** is the Windows service. `Process` has the daemon inside `run_as_service`: the control handler of the manager's
thread, the body's end or exception, and the reports of both, in any order; and what the manager does by itself (external):
boot, failure actions with their delay. `Caller` has install, restart, stop and removal, and the last page of the wizard, step by
step: each waits for a state that may change again before it is used.

### Instances

Of the six MC modules, MCEncode gives EncodeRun its symmetries. The others put independent components beside one another. Components that share no state cannot interfere, so a
behaviour has one of them, chosen in the initial state, and the run checks the sum of their state spaces and not the product:
**MCDaemon** (`part`: an RTSP supervisor, the guard, a fetch, the two watches), **MCNightly** (`subject`: delivery or history),
**MCWeb** (`part`: checker, command, login, video, overview, services) and **MCSetup** (`part`: copies, restarts, roster, service,
wizard). ConfigStore is there twice: with all its copies and a daemon nothing becomes of, and with the daemon and one copy at the most,
because no property relates the two. What does interact is composed for real: EncodeRun has capture, runs and a lock that may fail; CredentialWatch has ladder, heartbeat and
watch; RtspGrabber thread and process; ConfigStore terminals, file and daemon; CameraRoster menu, daemon and encode.
**MCRefusals** takes CredentialWatch in two ways (`watched`): with the watch and an undisturbed clock, or without it and with a
clock that is stepped; MCNightly varies the settings of a transfer one at a time where they do not meet (`MCWorld`) and has the symmetry of
videos and cameras, which no action or property tells apart.

### Slips

Definitions whose comment begins with "A slip" or "Slip" are mutated forms, as a plausible mistake would have them: they stand beside
the definition they mutate and are used by nothing. For each property of each passing run `PROJECT.json` names the slip that breaks it.

## The runs

`tlc -config <run>.cfg <module>`; the configurations are named after the runs, which are named after their modules but for
EncodeBacklog and EncodePartialDelete (EncodeRun), RtspGrabberMidnight (RtspGrabber) and FetchBudgetDribble (FetchBudget). The
bounds are a few units; each is chosen so that the boundary in question is crossed more than once.

| Run | What it shows | Bounds, and why they are enough |
|---|---|---|
| HttpCapture | a day keeps the cadence its marker records (`FramesMatchMarker`); ticks stay on the grid through one step of the clock of any size (`TicksStayOnGrid`); no frame replaces another (`NoFrameOverwritten`) | Intervals 2 and 3 in a day of 5: neither divides it, so midnight falls between ticks, on one, and just after one. Local time falls back by 1 at instant 4, so that a name is wanted twice; two suffixes stand for a hundred. The clock ends at 9, in the second day, and may be stepped back into the first. Restarts, edits, removals and pauses are not bounded. |
| MCRefusals | no more than `AUTH_STRIKES + 1` refusals of one incident within a lockout window but for clock steps (`NoHammering`); recovery (`Recovers`); an incident is told once more at most than its record was lost (`NotifiedOnce`), and in the end (`ToldInTheEnd`); a silence of the back-off is bounded (`SilenceBounded`) | 2 strikes as in the code; pause, retry and lockout at 2, 4 and 4 ticks for 600 s, 1860 s and 1800 s. One step of 4 ticks, as long as a lockout. With the watch: a heartbeat stale after one unit, two changes of camera or daemon (an incident and its end), one lost record. |
| MCDaemon | pause and stop reach ffmpeg (`PauseStopsGrabber`), and what it files under a day is never later than the day after it and the time to connect (`OverrunBounded`); the reserve (`ReserveKept`); the second attempt is over `RETRY_GUARD` before the next tick, but for a timeout for each slow operation after the first (`RetryCost`); silence is told once (`SilenceToldOnce`), only of a camera that was asked in vain or not asked for a pause (`AlarmIsEarned`), and in the end, as is its end (`SilenceReported`) | Three days of two units, the clock ending one unit past the bound of the first; two units between two reads of the clock, so that midnight comes anywhere in a setup; one to connect, one kill; one cadence, which neither property looks at. A threshold of 10 in a disk of 14, a resume at 11, at most 2 written in a unit, a reading every 2, one failed reading in a row. Two cadences in quarter seconds, two slow operations per attempt, so that a retry does run into the next tick. A camera silent after 2 units and a heartbeat stale after 1, so a camera may fall silent, come back, be refused or be paused between two watches; a second camera, one that is gone, enabled and disabled beside one that answers (`late`); two driver versions; one lost record. |
| MCEncode | the frames of an undisturbed day are in a directory or whole in the newest video (`CustodyInv`); the abstract promise (`ImplementsCustody`) | Two days, a finished one beside the current one, so that late frames, midnight and both kinds of run meet each of them; two frames, so that one may come late; two processes, with the lock and without, by the timer or by hand with any date; one crash anywhere, markers that may fail. |
| EncodeBacklog | every finished day is encoded (`EveryDayEncoded`) and every video shipped (`EveryVideoShipped`) | Three days against a cap of one, a deletion that may stop half way, one crash, a run by hand for the first day; the lock can be taken and no frame comes late. |
| MCNightly | the newest video of a name exists, whole (`NewestIsKept`), and on Windows nothing is half there (`NeverHalfThere`); the check of the credentials answers for the credentials (`CredentialsVerified`), that of rsync only for what the run will meet (`RsyncProbeHonest`); a row without frames is true and told once (`NoFramesIsTrue`); a run with nothing to do says why (`IdleAnswerTrue`) | Two videos encoded twice in all: a name again while its older copy is at the destination, or one after the other. One length is enough for a part (length 0) and for a re-encode as long as what it replaces, which is the case that only times can tell. The share comes and goes, others connect, a run is killed without bound. Two days, two cameras, a record of two runs against fourteen: the third forgets. At most two camera-days of lost record. |
| LibraryIndex | a scan deletes rows only of files that were missing while it walked (`PruneOnlyTheGone`); the table becomes the library (`Converges`) | A root and one folder, a file in each, two versions of it: a listing may be older than the file, the folder may come and go, a walk passes one directory before the other. Batches of 2 in place of 500, so one is written in mid-walk; one request at a time, beside the scan. Changes of the library and the mount, scans and restarts are not bounded. |
| MCWeb | the panel of updates claims nothing that is not so (`PanelHonest`) and comes to show a release (`UpdateNoticed`); no page without a login (`PagesNeedLogin`); an answer is as long as promised (`FramingKept`) and a download of one encode (`NeverSpliced`); the overview is never greener than the camera is, or was at its heartbeat where no frame is found (`NeverTooGreen`) | A day of two retry units and two versions: due, not due, backed off and at the cap. Two browsers, three tokens in a table of two, an idle time of one. Two encodes of one or two bytes: shorter, longer, and as long, and a row of either for an answer of the other. A camera at the limit of 3 intervals, listings kept for 4, a heartbeat every 3 that is old after 7. |
| MCSetup | the copies are in order (`ListedInOrder`); what was said of the daemon is so (`SaidIsSo`); no frames that can be seen are left behind unannounced (`StrandedIsKnown`); a stop stays one (`StoppedStaysStopped`), a crash does not (`CrashedComesBack`), and a restart is of the new settings (`NewSettingsRun`); what is captured has answered (`EnabledIsProven`) | Two terminals, two copies kept and four saves, so that pruning happens while the other asks, after torn copies and removals that failed. Two names and three days, two edits: a rename to and fro, a removal and an addition again. Four jobs and two faults for the service: a stop, a start and another stop around a crash. Two cameras, two boxes typed and one row added. |
| RtspGrabberMidnight, EncodePartialDelete, FetchBudgetDribble | three disagreements, see below | |

MCEncode, EncodeBacklog and EncodePartialDelete differ in what may go wrong: `MarkerMayFail`, `DeletionMayStop`, `LockMayFail`,
`LateFrames`, `ByHand`. A property is checked with those it holds under, or that its state space can bear. HttpCapture has `MarkerMayFail` FALSE: the
theorem covers the other case. `EveryDayEncoded` says under what it holds: while `NothingFillsTheCap`.

`CHECK_DEADLOCK FALSE` is set where a behaviour ends because the thing it models does: in MCDaemon and FetchBudgetDribble a fetch is
over, in MCNightly the days of the history are, in MCSetup the jobs and edits an operator has are. In the other runs a bound never
stops the system: something is always left to happen.

Some properties stand in their modules and in no passing run. Proved instead: the type invariants of HttpCapture, AuthBackoff,
CredentialWatch, DiskGuard, Watches, RtspGrabber, EncodeRun, LibraryIndex and Sessions; `TicksAdvance`, `FiredNearClock`,
`EditsWaitForMidnight` (HttpCapture), `ConfirmedAcrossPause`, `AttemptsStandAlone` (AuthBackoff), `AlarmIsConfirmed`,
`AllClearEndsIncident` (CredentialWatch), `EncodedOnce`, `NothingDisturbs` (EncodeRun), `NoFlapping` (DiskGuard), `FramesMatchMarker`,
`NoEmptyDays` (RtspGrabber), `LoginLasts` (Sessions), `AsksWhenDue`, `NoDowngrade` (Updates), `NextSignsInOnce`, `PaneIsStored` and `StoredShareTested` (Wizard). Checked while
the modules were written, each with its module's own specification: the other type invariants, `EventuallyAllClear`,
`StopEndsThread`, `CaptureResumes`, `ScanEnds`, `DriverReported`, `ServicesHonest`. Three state what a
document says and the code does not do: `RestoreIsReversible`, `NeverStrandedSilently`, `HealthyIsGreen`, see below.

## Fairness

Safety and the action properties are checked without fairness. Liveness assumes this and no more:

- **AuthBackoff, CredentialWatch** (MCRefusals): a running thread reaches its next tick (its waits are `STOP.wait` with a timeout), the
  heartbeat loop its next minute, and a stopped daemon is started again (systemd's `Restart=always`, the
  service manager's restart). Strong fairness for the messages: the heartbeat is rewritten several times between two
  runs of the watch and therefore not stale at every one, and no sink refuses every message. The camera owes nothing.
- **RtspGrabber** (MCDaemon): the supervisor's own steps, which are polls and plain calls. Not ffmpeg: it may connect never.
- **Watches** (MCDaemon): minutes pass, the daemon is started and writes its heartbeat, a camera that delivers delivers, and a
  watch that has sent its messages saves. Strong for the watch itself: its timer goes on, and now and then it finds the
  heartbeat fresh, the message delivered and the driver readable.
- **EncodeRun** (EncodeBacklog): the nightly run starts again and again at moments when no run holds the lock (strong: a manual run may hold
  it at some). A run that has begun goes on. ffmpeg does not fail on a day every night for ever, and a transfer
  not on a video. Kills are bounded: a run killed every night encodes nothing.
- **LibraryIndex**: the worker's thread and a request's go on. `Converges` is conditional: it assumes that scans are completed again
  and again (somebody asks for them, and the database takes them) once the share stays up.
- **Updates** (MCWeb): hours pass, the web service is started, its pages are viewed, the threads save. Strong for GitHub: it answers now and then.
- **ServiceHost** (MCSetup): a process that was started loads and reports, and a failure action the manager has queued is run. Nobody
  owes a request, and a process need not come to its end.

Delivery has no liveness of its own: `EveryVideoShipped` needs of a transfer that it does not fail for ever, and says so.

## The proofs

TLAPS proves these for every value of the constants that satisfies the named `ASSUME` of the module. There is
no bound in them: MaxClock, MaxSteps, MaxDay, MaxCrashes, MaxEncodes or MaxJobs are any natural numbers, and cameras, videos, names,
terminals, browsers and slots any sets.

| Module | Theorems |
|---|---|
| HttpCaptureProofs | the arithmetic: `next_slot` is on the grid, strictly later, at most an interval away; `next_boundary` at or after now, less than one away; a resync converges. The thread: `TypeOK`, `FramesMatchMarker`, `TicksAdvance`, `TicksStayOnGrid`, `FiredNearClock`, `EditsWaitForMidnight`, `NoFrameOverwritten` |
| AuthBackoffProofs | `TypeOK`, the ladder `LadderInv`, `ConfirmedAcrossPause`, `AttemptsStandAlone`, `SilenceBounded`, `NoHammering`; of the watch `WTypeOK`, `NotifiedOnce`, `AlarmIsConfirmed`, `AllClearEndsIncident` |
| DaemonProofs | of the guard `GuardTypeOK`, `NoFlapping`, `ReserveKept`; of a fetch that the timeout stays under the interval, that a retry which uses its whole timeout ends the guard before the next tick, and `RetryCost` for any number of slow operations; of the watches `WatchesTypeOK`, `SilenceToldOnce`, `AlarmIsEarned`; of an RTSP camera `GrabberTypeOK`, `NoEmptyDays`, `FramesMatchMarker`, `OverrunBounded` |
| EncodeRunProofs | `TypeOK`, `CustodyInv`, `EncodedOnce`, `NothingDisturbs`, and that EncodeRun implements FrameCustody |
| NightlyProofs | `NewestIsKept`, `NeverHalfThere`, `CredentialsVerified`, `RsyncProbeHonest`, `NoFramesIsTrue`, `IdleAnswerTrue` |
| LibraryIndexProofs | `TypeOK`, `PruneOnlyTheGone` |
| WebProofs | `FramingKept`, `NeverSpliced`; of the sessions `SessionsTypeOK`, `PagesNeedLogin`, `LoginLasts`; `NeverTooGreen`; of updates `PanelHonest`, `AsksWhenDue`, `NoDowngrade` |
| SetupProofs | `EnabledIsProven`, `NextSignsInOnce`, `PaneIsStored`, `StoredShareTested`, `StrandedIsKnown`, `SaidIsSo`, `ListedInOrder`, `StoppedStaysStopped`, `NewSettingsRun` |

Six theorems have a hypothesis beside the module's assumption. Each names what breaks the property in the code:

- `MarkedDayStaysDone` (`EncodedOnce`), `FramesOrVideo` (`CustodyInv`) and `NothingIsLost` (`ImplementsCustody`) assume `~DeletionMayStop`;
  EncodePartialDelete shows why. They assume nothing of the lock, of midnight or of late frames: what these do is in `crossed`.
- `NothingDisturbsADay` (`NothingDisturbs`) assumes `~LockMayFail`, `~LateFrames` and no run with a date: then `crossed` stays empty, and what the
  three others say of undisturbed days is said of all.
- `NewestStays` (`NewestIsKept`) assumes `NasAhead = 0`: a share whose clock is ahead, and which does not let `copystat` set a time,
  makes an older copy of the same length look new enough. `NothingHalfThere` needs no such thing.
- `OneCadencePerLaunch` (RtspGrabber's `FramesMatchMarker`) assumes `~MarkerMayFail`: with a marker that cannot be written, a later launch of the
  same day may have another cadence.

That an RTSP process is bounded to its day (`BoundedToItsDay`) is refuted by RtspGrabberMidnight; `OverrunIsBounded` says what is left of it,
and the bound is the least one: MCDaemon reaches it.

Two assumptions on constants are there for a proof: `NamesAssumption` (a camera is not a pair of numbers, since `open` holds cameras and pairs
of driver versions alike), and that the setup of a launch takes no more than a day (`GrabberAssumption`).

The inductive invariants, and why the property alone is not one:

- **CadenceInv.** That frames match their marker says nothing about the next frame. It takes that every directory has its
  marker or is `unmarked`, that a running thread whose day has a marker has its cadence, and that a fetch in flight belongs to the thread's day.
- **TickInv.** The next tick is on the grid, after the last one, and, before any clock step, at most one interval
  ahead of the clock. A restart is covered by `pc = "down" => fireT < clock`: `next_slot` is strictly later.
- **LadderInv** and **PacingInv.** The rungs are held only within an incident of refusals, and each refusal's age and what is
  left of the silence after it add up to the silence of its rung. The pacing properties are consequences at the moment of an attempt.
- **SilenceInv** (for `SilenceBounded`): the silence so far and what is left of it never exceed `AUTH_RETRY` and the clock's steps.
- **HammerInv** (for `NoHammering`): before the pause there is at most a refusal per strike, and one after it. Once confirmed, the refusals
  of a window are one less whenever the silence under way does not outlast them all (`Paced`), which takes a step of the clock; the next refusal
  starts a silence that does. So each step of the clock buys one refusal and not more.
- **WatchInv** (for `NotifiedOnce`): an incident told more often than records were lost is the one on record, is about to be saved, or
  can be read from no heartbeat any more (`ToldInv`); and the heartbeat names only incidents that have begun, and the one under way
  only once it is confirmed (`HeartbeatInv`).
- **IncidentInv** (for `AlarmIsConfirmed`, `AllClearEndsIncident` and the types): whatever the heartbeat names was confirmed when it was written, what is on
  record or about to be was told, and an incident takes an upset: there is never more than one more of them than of upsets.
- **AskedInv** (for `AlarmIsEarned`): a camera whose newest frame is old and whose daemon is said to have run for long was asked
  for the lesser of the two, less the age of the heartbeat. **OnRecord** (for `SilenceToldOnce`): an alarm without
  its all-clear is in the record, or in the hands of the watch that sent it.
- **OneCadence** and **OverrunInv** (RtspGrabber): a launch carries the cadence of its day's marker, if the day has one; and the setup, the
  connecting and the stream each end by the last midnight that the launch may have meant (`LastMidnight`).
- **ReserveInv.** Free space and what capture can have written since the last reading that succeeded cover the threshold.
- **SpendingInv.** An attempt takes a timeout for each slow operation at the most, and the second one's is what the first left of the tick.
- **CustodyInv** is inductive as checked: besides the property (`ReleasedIsWhole`) it has that one run at most holds the lock, that
  the days two runs are at are all `crossed`, that a directory is there whole or gone, and that a run past the encode of a finished day has
  all of it in its video. **OrderlyInv** (for `NothingDisturbs`): each run holds the lock, and has days past in hand only.
- **DeliveryInv.** That the newest video exists somewhere does not survive the deletion of the original. It takes that the file here is whole and as
  old as its encode, that every copy of an older one is older by more than the slack (`CopiesDated`, so that equal lengths and
  times mean the same video), and that what the run has in hand is still here and what it is about to delete has arrived
  (`InHand`). **WholeInv**, for `NeverHalfThere`, has no times in it.
- **SessionInv** (for `CredentialsVerified`): while nobody else connects and what was there is nobody's or ours, the session of a check is
  nobody's or ours before it connects, and ours after.
- **IdleInv** (for `IdleAnswerTrue`): a run that found nothing, on a date that is still today's, found every finished day of a listed camera marked; and no day finishes and no mark goes before midnight.
- **HistoryInv.** A camera-day that had frames or was told of is on the disk, in the record, in the hands of the run, or lost
  (`Remembered`); and who the run will report was settled before it began (`RowsAreTrue`).
- **WalkInv.** While the mount stays up, a file that was there all along is behind the walk, in its hands, or in a directory it has still to
  read. At the end of the walk only the first is left.
- **DoneInv.** A marker lasts as long as its directory, and no directory comes back, but for crossed days.
- **CopiesInv** (for `ListedInOrder`): no copy has a stamp of the future, one that was made later sorts later, and the last `Keep` are there; so a copy
  that is one of them has fewer than `Keep` above it and is not pruned. `SaidIsSo` is inductive as it stands.
- **ToldInv** (for `StrandedIsKnown`): a day of a name that is off and older than the day it went off is `told` or `unseen`, whatever the menu has in hand.
- **VideoInv** (for `NeverSpliced`, `FramingKept`): unless `stale`, `raced` or `scribbled`, the body, the row of its headers and all the player has are of one encode.
- **PageInv** (for `NeverTooGreen`): the listing never shows a frame younger than the newest one on the disk, the heartbeat no success later
  than that frame, and a daemon that runs has written a heartbeat in the last `BeatEvery`. **ClaimsInv** (for `PanelHonest`): every copy of the answer, in memory, in the file and in the hands of a thread, is `Sound`.
- **Knowing** (for `AsksWhenDue`): what a checker that lost no outcome knows is what happened. **OfferIsNewer** (for `NoDowngrade`): an offer
  nobody asked for is of a later version than the one it was made to.
- **LoginInv** (for `PagesNeedLogin`): a live session is of a token that was made and not ended, and as old as its last use. **Bounded** (for
  `LoginLasts`): a full table has nothing left to prune, so what is evicted is the oldest of all.
- **WizardInv.** The keys that need not be asked are ones that answered, a camera that refused Next is off until its entry changes, and
  the pane was filled from the draft as it is. **ManagerInv**, **JobInv**, **QuietInv**, **SettingsInv** say what the state the
  service manager holds tells of the process, and what each caller has seen when it comes to its next step.

The refinement follows action by action, for each undisturbed day: Capture and CaptureLate are
FrameCustody's `Keep`, Delete its `Release`, and every other step, the overwriting of a video included, leaves the day's `Kept` the same
because of CustodyInv.

Only model-checked is what has to happen in the end, because the provers have neither fairness nor ENABLED: `Recovers`, `ToldInTheEnd`,
`PauseStopsGrabber`, `SilenceReported`, `EveryDayEncoded`, `EveryVideoShipped`, `Converges`, `UpdateNoticed` and `CrashedComesBack`.
Every invariant and every action property of a passing run is also proved. None of the modules has a recursive operator, and
nothing is proved by induction over data.

## Where the code and its documents disagree

Three runs end in a counterexample, each against a sentence of the repository (quoted in `PROJECT.json`):

- **EncodePartialDelete**: the marker that is to make a failed deletion harmless lies in the directory that is being
  deleted. A deletion that stops half way may take it and leave frames; the next run encodes what is left and replaces
  the day's video by it.
- **RtspGrabberMidnight**: the RTSP supervisor reads the day, does the day's disk work, and then computes `-t` from the
  clock. If midnight comes between, ffmpeg writes a whole day into yesterday's directory.
- **FetchBudgetDribble**: `read_snapshot` looks at its deadline once per 64 KB chunk. A body that dribbles in below that is
  not given up while each read stays under its timeout.

More was met while modelling. These follow from the modules by changing a constant or a bound, or by naming the property in a
configuration, and have no run of their own:

- A run of today by hand (`--date`) that spans midnight asks whether the day is still captured after the encode, so it marks and
  deletes a day of which it listed a part (`timelapse_encode.py:3339`, against the docstring at 1374). Such a day is `crossed`.
- Two runs that could not take the lock ("unavailable", `timelapse_encode.py:3243`) may encode, delete and ship the same day, which
  `docs/architecture.md:264` calls data loss in both directions. And a frame that is filed under a finished day (`timelapse_capture.py:1200`) while a run
  has it in hand goes with the directory unencoded. Such days are `crossed`, too.
- A marker that could not be written, an edit and a restart put two cadences into one day (`timelapse_capture.py:645`, against the comment
  at 556). `FramesMatchMarker` exempts the days in `unmarked`; the theorem has `MarkerMayFail`, the run has not, because frames of two cadences in a
  day make its states too many.
- Days with fewer than `min_frames` frames stay pending and count against `max_backlog_days`, so that many of them hide an older
  day (`timelapse_encode.py:3032`, against `docs/architecture.md:1192`). `NothingFillsTheCap` excludes it.
- An ffmpeg whose `-t` runs past midnight writes names its directory already has, and `-y` overwrites them
  (`timelapse_capture.py:1200`).
- Two slow operations in a second attempt take it past the next tick, because the timeout is per operation
  (`timelapse_capture.py:974`, against "a retry can never cost the next frame as well" in the docstring at 874 and "Worst-case finish is
  `deadline - RETRY_GUARD`" in `docs/architecture.md:204`). MCDaemon has it, and `RetryCost` says what it costs: its last term is this disagreement.
- The all-clear of the credential watch says the camera is answering again when the daemon was restarted or when the camera
  stopped answering altogether (`timelapse_encode.py:2520`).
- The suffixed names are not confined to the fall-back hour: a clock stepped back needs them too (`timelapse_capture.py:861`).
- The silence of the back-off ends at a wall-clock time, so a clock stepped back prolongs it; `SilenceBounded` allows for that. It also
  hides the silence of a camera from `watch_cameras`.
- The watch "stays quiet while the disk guard has paused capture" (`docs/install.md:481`), and no longer: after a pause longer than the limit it takes
  the frame from before it for a camera's age (`timelapse_encode.py:2636`) and may report every camera at once, before any was asked. `AlarmIsEarned` exempts
  them (`interrupted`). A camera enabled while the daemon runs is reported without having been asked.
- `NoHammering` counts within one incident. A camera that answers once, or a daemon that is restarted, begins the count anew, so that a camera may see
  the refusals of two incidents in one of its lockout windows.
- A re-encode of equal length whose older copy got its time from a share with a clock ahead counts as moved
  (`already_there`, `timelapse_encode.py:1940`). Set `NasAhead` to 2.
- `verify_share_credentials` "presents the credentials and nothing else" (docstring at 1887), but ignores whether its disconnect worked, and one is not
  forced (`timelapse_platform.py:2483`): a session that stays for its open files, or one that another program makes in between, answers for
  the credentials. `alone` excludes both. And `mount_problem` is asked once, before rsync begins (`excused`).
- A row about a camera without frames is untrue when the record of its encode was lost or pushed out, idle runs included
  (`timelapse_encode.py:3058`); a failed run does not record the rows it would have told.
- "A missing library does NOT wipe the index" (`docs/architecture.md:607`): one unmounted or failing in the middle of a walk does, as far as
  the walk had not come, until the next scan (`timelapse_web.py:492`). `PruneOnlyTheGone` is about a mount that stays what it is.
- One entry of a folder that vanishes between the listing and its `stat` makes `reconcile_dir` drop every row filed under that folder, as if it were
  gone itself (`timelapse_web.py:579`); the next view brings them back.
- A camera at a cadence of five seconds that misses nothing may be shown red, because the listing that is judged is up to `COUNT_TTL` old
  (`timelapse_web.py:1588`): `HealthyIsGreen`.
- A video replaced between the `stat` that its ETag is made of and the `open`, or written over in place, is sent under the old ETag (`raced`, `scribbled`).
  And size and ETag are not "derived from the fresh stat" (`timelapse_web.py:2713`) but from the row of the index, which is an older one when the write of the
  fresh one was refused or overtaken (660-671): an answer may be short of the file or end before its length, and a download resumed then of two encodes (`stale`).
- "It gained a fault the page could not previously see" (`docs/architecture.md:672`), but not for good: of a camera without a frame of today or
  yesterday, or whose directory cannot be read, the row is what the heartbeat last said (`timelapse_web.py:1627`), and stays green with a heartbeat that is
  not written any more. The page's note on the daemon then says so; `NeverTooGreen` has the two together.
- Two checkers' threads may write `update.tmp` at the same time (the save is outside the lock); a declined `timelapse update` exits 0, and two of
  them at once have no lock.
- "The current config is backed up first, so this is reversible" (`timelapse_setup.py:4651`, `docs/install.md:804`): after the clock was stepped back the
  newest copy sorts as the oldest and is the one that is pruned (4420). `RestoreIsReversible` with `ClockMayStepBack`. A copy that fails half way, of a full disk,
  is a warning, the save goes on, and the torn copy is number 1 (4414); it counts among the `Keep`, so that the next good copies push good ones out and not it.
- "Capture is not running; the new list applies when it next starts" (`timelapse_setup.py:1997`) is also said on Windows of a daemon that is starting or
  ending, and on both of one that ends: it may have read the old list and goes on with it. `premature` exempts that.
- "It refuses to strand frames silently" (`docs/architecture.md:465`): `pending_days` counts the days before today (1450), so today's frames of a camera that
  is disabled in the menu are left without a word: `NeverStrandedSilently`. A frames directory that is not mounted or cannot be read has no pending days
  (1463, 1470), so all of a camera's days are left without a word: `StrandedIsKnown` exempts them (`unseen`). The graphical wizard warns of nothing, and does not move directories; a
  menu that is abandoned after a rename leaves the moved directory under a name no list has.
- The last of two terminals wins, silently; what it overwrote is backup number 1. The full wizard never offers the restart, and where the
  service manager cannot be asked nobody is told.
- `restart_units` takes "cannot tell" for stopped (`timelapse_setup.py:2102`, against the docstring at `timelapse_platform.py:1408`), and skips a
  service that is starting, which has perhaps read the old settings (`missed`).
- An INTERROGATE is answered with a state read earlier: START_PENDING after RUNNING makes the manager refuse a stop until the
  next report. `sc stop` during the delay of a failure action does not cancel it. `remove_units` deletes a service whose stop failed.
- The key of a proven camera in the graphical wizard has no authentication scheme, so a change from digest to basic is not tested; Back
  throws a dirty pane away unasked (`timelapse_gui.py:765`).

## Not modelled

- **Frame selection** (`frame_order`, `valid_frames`, the choice of an encoder): pure functions of names, sizes and texts, run once per day and
  without state. What they choose among is in EncodeRun and Watches.
- Of the **wizards** the pages for storage, notifications, discovery and mounts: each asks for one answer and stores it.
- Of the **web pages** the library's pages, playlists and logs, which render what LibraryIndex has; `next_run_detail`; jumps of the wall clock in the
  ages that StatusPage, Sessions and Updates count; a thread that cannot be started after `_busy` was set.
- Of the **service host** Windows' scheduled tasks; systemd is present by its answers only.
- **ConfigStore** leaves out two saves in the same millisecond, a kill between the replacement of the file and the tightening of its mode, and
  `restart_web_if_running`, the same question about the web UI after its own section; the sections for cameras and transfer never ask it.
  **Watches** leaves out two watches at the same moment: `save_notified` has no lock, and one section may be lost.
- **The command line, the pre-flight checks and the installers**: sequential tools that print what they find or copy files. `timelapse config` and
  `timelapse update` are in ConfigStore and Updates.
- Rendering of pages, forms and messages, argument parsing and downloads, whose behaviour is
  text or the file system's; the inside of ffmpeg, rsync and the cameras, which are the environment of the models; and the
  arithmetic of time zones beyond one hour that repeats.
