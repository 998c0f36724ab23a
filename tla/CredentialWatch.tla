---------------------------- MODULE CredentialWatch ---------------------------
(***************************************************************************)
(* The credential watch: what the capture daemon publishes about a refusal *)
(* (error_state, write_state -> capture.json), and the process run from a  *)
(* timer that reads it, sends one message when a confirmed refusal starts  *)
(* and one when it is over, and remembers which incident it has reported   *)
(* (watch_credentials, save_notified -> notified.json).  Composes the      *)
(* back-off of AuthBackoff with the two files, the watch and the sinks.    *)
(***************************************************************************)
EXTENDS AuthBackoff

CONSTANTS
  StaleAfter,   \* CAPTURE_STALE, in ticks
  MaxUpsets,    \* bound: how often the camera changes or the daemon stops
  MaxLosses     \* bound: how often a watch dies, or cannot save its record

ASSUME WatchAssumption ==
  StaleAfter \in Nat /\ MaxUpsets \in Nat /\ MaxLosses \in Nat

\* Incidents are numbered; an upset starts at most one.
Incidents  == 1..(MaxUpsets + 1)
NoIncident == 0
Idle       == -1

VARIABLES
  upsets,     \* how often the camera changed or the daemon stopped so far
  latest,     \* the latest incident there was
  errSince,   \* self.err_since, the identity of the incident under way
  hbRunning,  \* capture.json: running
  hbSince,    \* capture.json: since of a confirmed refusal, else NoIncident
  hbAge,      \* time.time() - updated_epoch, in ticks, up to StaleAfter + 1
  known,      \* notified.json: the incident reported for this camera
  unsaved,    \* a watch between its message and save_notified: what it will
              \* save, or Idle
  losses,     \* how many records were lost so far
  told,       \* history: alarms sent for each incident
  proven      \* history: the incidents that were confirmed

incident == <<latest, errSince>>
files    == <<hbRunning, hbSince, hbAge>>
watch    == <<known, unsaved, losses>>
wvars    == <<vars, upsets, incident, files, watch, told, proven>>

WInit ==
  /\ Init
  /\ upsets = 0 /\ latest = NoIncident /\ errSince = NoIncident
  /\ hbRunning = FALSE /\ hbSince = NoIncident /\ hbAge = StaleAfter + 1
  /\ known = NoIncident /\ unsaved = Idle /\ losses = 0
  /\ told = [i \in Incidents |-> 0] /\ proven = {}

-------------------------------------------------------------------------------
(* The daemon.                                                             *)

\* err_since changes when the class does, and is forgotten with the incident.
Since ==
  IF errClass' = NoError
  THEN errSince' = NoIncident /\ UNCHANGED latest
  ELSE IF errClass' # errClass
  THEN latest' = latest + 1 /\ errSince' = latest'
  ELSE UNCHANGED incident

\* One step of the daemon's camera thread or of its environment.
DaemonStep ==
  /\ \/ CameraChanges /\ upsets < MaxUpsets /\ upsets' = upsets + 1
     \/ (TogglePause \/ StartDaemon \/ StepClock \/ Tick) /\ UNCHANGED upsets
  /\ Since
  /\ proven' = proven \cup (IF confirmed' THEN {errSince'} ELSE {})
  /\ hbAge' = IF Tick THEN Lesser(hbAge + 1, StaleAfter + 1) ELSE hbAge
  /\ UNCHANGED <<hbRunning, hbSince, watch, told>>

\* Time passes without a daemon.
DownTime ==
  /\ ~up /\ hbAge <= StaleAfter
  /\ hbAge' = hbAge + 1
  /\ UNCHANGED <<vars, upsets, incident, hbRunning, hbSince, watch, told, proven>>

\* error_state as the watch reads it: the since of a confirmed refusal.  The
\* fields are read without a lock, in the order class, since, confirmed; a
\* tick between two reads yields what a read after that tick would.
Published == IF errClass = "auth" /\ confirmed THEN errSince ELSE NoIncident

\* write_state, once a minute and when the threads are up.
WriteState ==
  /\ up
  /\ hbRunning' = TRUE /\ hbSince' = Published /\ hbAge' = 0
  /\ UNCHANGED <<vars, upsets, incident, watch, told, proven>>

\* A clean stop writes a last heartbeat that says so; a killed daemon does not.
Halt ==
  /\ upsets < MaxUpsets /\ upsets' = upsets + 1
  /\ StopDaemon
  /\ \/ hbRunning' = FALSE /\ hbSince' = Published /\ hbAge' = 0
     \/ UNCHANGED files
  /\ UNCHANGED <<incident, watch, told, proven>>

-------------------------------------------------------------------------------
(* The watch.                                                              *)

\* read_capture_state: a heartbeat that says something about now.
Fresh == hbRunning /\ hbAge <= StaleAfter

\* Two slips: the record not asked, and an incident recorded as reported whether
\* or not its message was taken.
AlarmEveryRun ==
  /\ unsaved = Idle /\ Fresh
  /\ hbSince # NoIncident
  /\ unsaved' = hbSince
  /\ told' = [told EXCEPT ![hbSince] = IF @ > 3 THEN @ ELSE @ + 1]
  /\ UNCHANGED <<vars, upsets, incident, files, known, losses, proven>>
AlarmUndelivered ==
  /\ unsaved = Idle /\ Fresh
  /\ hbSince \notin {NoIncident, known}
  /\ unsaved' = hbSince
  /\ \E sent \in {0, 1} : told' = [told EXCEPT ![hbSince] = @ + sent]
  /\ UNCHANGED <<vars, upsets, incident, files, known, losses, proven>>

\* A confirmed refusal that has not been reported, and a sink that takes the
\* message.  When none does the watch leaves everything as it is.
Alarm ==
  /\ unsaved = Idle /\ Fresh
  /\ hbSince \notin {NoIncident, known}
  /\ unsaved' = hbSince
  /\ told' = [told EXCEPT ![hbSince] = @ + 1]
  /\ UNCHANGED <<vars, upsets, incident, files, known, losses, proven>>

\* A reported refusal the heartbeat no longer shows: the all-clear, taken.
AllClear ==
  /\ unsaved = Idle /\ Fresh
  /\ hbSince = NoIncident /\ known # NoIncident
  /\ unsaved' = NoIncident
  /\ UNCHANGED <<vars, upsets, incident, files, known, losses, told, proven>>

\* save_notified.
Save ==
  /\ unsaved # Idle
  /\ known' = unsaved /\ unsaved' = Idle
  /\ UNCHANGED <<vars, upsets, incident, files, losses, told, proven>>

\* notified.json cannot be written, or the watch dies after its message.
LoseRecord ==
  /\ unsaved # Idle /\ losses < MaxLosses
  /\ unsaved' = Idle /\ losses' = losses + 1
  /\ UNCHANGED <<vars, upsets, incident, files, known, told, proven>>

-------------------------------------------------------------------------------
WNext ==
  \/ DaemonStep \/ DownTime \/ WriteState \/ Halt
  \/ Alarm \/ AllClear \/ Save \/ LoseRecord

\* The tick loop and the minute loop run; the service manager restarts the
\* daemon; the timer runs the watch and a watch saves its record.  Strong
\* fairness for the messages: between two runs of the watch the heartbeat is
\* rewritten several times (every minute, against CAPTURE_STALE's five), so it
\* is not stale every time, and (external) no sink refuses every message.
WSpec ==
  /\ WInit /\ [][WNext]_wvars
  /\ WF_wvars(DaemonStep /\ Tick) /\ WF_wvars(DaemonStep /\ StartDaemon)
  /\ WF_wvars(WriteState)
  /\ SF_wvars(Alarm) /\ SF_wvars(AllClear) /\ WF_wvars(Save)

-------------------------------------------------------------------------------
(* Properties.                                                             *)

\* The type invariant of the composition.
WTypeOK ==
  /\ TypeOK
  /\ upsets \in 0..MaxUpsets
  /\ latest \in 0..(upsets + 1)
  /\ errSince \in {NoIncident, latest}
  /\ errSince = NoIncident <=> errClass = NoError
  /\ hbRunning \in BOOLEAN /\ hbSince \in Incidents \cup {NoIncident}
  /\ hbAge \in 0..(StaleAfter + 1)
  /\ known \in Incidents \cup {NoIncident}
  /\ unsaved \in Incidents \cup {NoIncident, Idle}
  /\ losses \in 0..MaxLosses
  /\ told \in [Incidents -> Nat] /\ proven \subseteq Incidents

\* "Notifies once per incident": a second alarm for one incident takes a record
\* that was lost between the message and save_notified.
NotifiedOnce == \A i \in Incidents : told[i] <= 1 + losses

\* Nobody is told about a refusal short of a confirmed one, "a camera that
\* might merely have been rebooting", however old the heartbeat.
AlarmIsConfirmed == [][Alarm => hbSince \in proven]_wvars

\* The all-clear never interrupts the incident it closes: when it goes out, the
\* reported incident is over in the daemon, or the daemon is gone.
AllClearEndsIncident == [][AllClear => ~up \/ errSince # known]_wvars

\* A camera that refuses for good is reported in the end, through sinks that
\* were down for a while, records that were lost and restarts.
EventuallyTold ==
  <>[](camera = "auth" /\ ~paused /\ up)
    => <>[](known = errSince /\ known \in Incidents /\ told[known] > 0)

\* A camera that answers for good has no incident on record in the end.
EventuallyAllClear ==
  <>[](camera = "ok" /\ ~paused /\ up) => <>[](known = NoIncident)
===============================================================================
