------------------------------- MODULE RunHistory -----------------------------
(***************************************************************************)
(* What an encode run says of the camera-days, and what it remembers       *)
(* having said (scripts/timelapse_encode.py, main, find_pending,           *)
(* missing_days, run_record, write_run_state): the run history in          *)
(* encode.json is what tells a camera that captured nothing from one whose *)
(* frames were encoded and deleted.  EncodeRun has the work on one day.    *)
(***************************************************************************)
EXTENDS Integers, Sequences, FiniteSets

CONSTANTS
  AllCameras,  \* the cameras with an entry in the config or a directory
  Days,        \* bound: the last day, in 1..Days
  MaxRuns,     \* MAX_RUNS: how many runs encode.json keeps
  MaxBacklog   \* encode.max_backlog_days, 0 for all

ASSUME RunHistoryAssumption ==
  Days \in Nat \ {0} /\ MaxRuns \in Nat \ {0} /\ MaxBacklog \in Nat

VARIABLES
  listed,    \* the cameras enabled in the config
  today,     \* date.today()
  folders,   \* the camera-days that have a directory
  marked,    \* those of them that carry the encoded marker
  runs,      \* encode.json: of each run, newest first, the camera-days it reported
  night,     \* the run in progress
  shot,      \* history: the camera-days that had frames
  told,      \* history: the camera-days reported as without frames
  lost       \* history: camera-days encoded or told of which no record is left

historyVars == <<listed, today, folders, marked, runs, night, shot, told, lost>>

CameraDays == AllCameras \X (1..Days)
NoRun      == [at |-> "none"]
CameraOf(cd) == cd[1]
DayOf(cd)    == cd[2]

HistoryInit ==
  /\ listed \in SUBSET AllCameras /\ today = 1
  /\ folders = {} /\ marked = {} /\ runs = <<>> /\ night = NoRun
  /\ shot = {} /\ told = {} /\ lost = {}

\* The first frame of the day makes the directory; the daemon may still capture a
\* camera that the config no longer lists.
Shoot(c) ==
  /\ today <= Days /\ <<c, today>> \notin folders
  /\ folders' = folders \cup {<<c, today>>} /\ shot' = shot \cup {<<c, today>>}
  /\ UNCHANGED <<listed, today, marked, runs, night, told, lost>>

Midnight ==
  /\ today <= Days /\ today' = today + 1
  /\ UNCHANGED <<listed, folders, marked, runs, night, shot, told, lost>>

\* The config is edited; a run that is under way has read it.
EnableCamera ==
  /\ night = NoRun
  /\ \E c \in AllCameras : listed' = IF c \in listed THEN listed \ {c} ELSE listed \cup {c}
  /\ UNCHANGED <<today, folders, marked, runs, night, shot, told, lost>>

-------------------------------------------------------------------------------
Dates(cds) == {DayOf(cd) : cd \in cds}

\* find_pending: with --date that day of every camera on disk, enabled or not;
\* otherwise what is not marked of the newest dates before today.
Pending(date, force) ==
  LET old == {cd \in folders : /\ CameraOf(cd) \in listed /\ DayOf(cd) < today
                               /\ force \/ cd \notin marked}
      kept(d) == MaxBacklog = 0 \/ Cardinality({e \in Dates(old) : e > d}) < MaxBacklog
  IN  IF date # 0 THEN {cd \in folders : DayOf(cd) = date}
                  ELSE {cd \in old : kept(DayOf(cd))}

\* reported_days.
Reported == UNION {runs[i] : i \in 1..Len(runs)}

\* A slip: last night's run is the one that deleted the frames.
MissingSinceLastRun(jobs) ==
  {cd \in listed \X Dates(jobs) :
     cd \notin jobs /\ cd \notin folders /\ (runs = <<>> \/ cd \notin runs[1])}

\* missing_days: the rows for enabled cameras with nothing at all for a day that
\* is being encoded.
Missing(jobs) ==
  {cd \in listed \X Dates(jobs) :
     cd \notin jobs /\ cd \notin folders /\ cd \notin Reported}

\* A run: by the timer, with --date, with --force.
StartRun(date, force) ==
  LET jobs == Pending(date, force) IN
  /\ night = NoRun
  /\ night' = IF jobs = {}
            THEN [at |-> "idle", date |-> date, found |-> today]
            ELSE [at |-> "days", jobs |-> jobs, rows |-> {},
                  none |-> IF date # 0 THEN {} ELSE Missing(jobs)]
  /\ UNCHANGED <<listed, today, folders, marked, runs, shot, told, lost>>

\* encode_day and what main does of its result, oldest day first: a day that failed
\* or was skipped stays as it is, one that is still captured keeps its frames, one
\* that is encoded is marked, and deleted unless the frames are to be kept.
EncodeDay(cd, ok, delete) ==
  /\ night.at = "days" /\ cd \in night.jobs
  /\ \A other \in night.jobs : DayOf(cd) <= DayOf(other)
  /\ night' = [night EXCEPT !.jobs = @ \ {cd}, !.rows = @ \cup {cd}]
  /\ IF ok /\ DayOf(cd) < today
     THEN /\ folders' = IF delete THEN folders \ {cd} ELSE folders
          /\ marked' = IF delete THEN marked \ {cd} ELSE marked \cup {cd}
     ELSE UNCHANGED <<folders, marked>>
  /\ UNCHANGED <<listed, today, runs, shot, told, lost>>

\* write_run_state: the newest MAX_RUNS; a history that cannot be read starts anew,
\* one that cannot be written stays as it is.
WriteRuns(rows, readable, writable) ==
  LET old  == IF readable THEN runs ELSE <<>>
      next == SubSeq(<<rows>> \o old, 1, IF Len(old) < MaxRuns THEN Len(old) + 1 ELSE MaxRuns)
      held == UNION {next[i] : i \in 1..Len(next)}
  IN  IF writable THEN runs' = next /\ lost' = lost \cup (Reported \ held)
                  ELSE UNCHANGED runs /\ lost' = lost \cup (rows \ Reported)

\* The run ends: recorded, then told.
EndRun(readable, writable) ==
  /\ night.at = "days" /\ night.jobs = {} /\ night' = NoRun
  /\ WriteRuns(night.rows \cup night.none, readable, writable)
  /\ told' = told \cup night.none
  /\ UNCHANGED <<listed, today, folders, marked, shot>>

\* A critical failure: recorded with the days it got through, and without the rows
\* of the cameras that captured nothing.
Abort(readable, writable) ==
  /\ night.at = "days" /\ night' = NoRun
  /\ WriteRuns(night.rows, readable, writable)
  /\ UNCHANGED <<listed, today, folders, marked, shot, told>>

\* Killed: nothing is recorded.
KillRun ==
  /\ night # NoRun /\ night' = NoRun
  /\ lost' = lost \cup IF night.at = "days" THEN night.rows \ Reported ELSE {}
  /\ UNCHANGED <<listed, today, folders, marked, runs, shot, told>>

\* A slip: a run of one day is answered about the backlog.
AnswerOfBacklog ==
  LET days == {DayOf(cd) : cd \in {x \in folders : CameraOf(x) \in listed}} IN
  IF listed = {} THEN "no cameras"
  ELSE IF days = {} THEN "no days"
  ELSE IF days = {today} THEN "only today" ELSE "all encoded"

\* explain_idle, asked after find_pending came back empty and reading the disk and
\* the date again.
Answer ==
  LET days == {DayOf(cd) : cd \in {x \in folders : CameraOf(x) \in listed}} IN
  IF listed = {} THEN "no cameras"
  ELSE IF night.date # 0 THEN "no such day"
  ELSE IF days = {} THEN "no days"
  ELSE IF days = {today} THEN "only today"
  ELSE "all encoded"

\* A run with nothing to do is recorded too, and says why.
EndIdleRun(readable, writable) ==
  /\ night.at = "idle" /\ night' = NoRun
  /\ WriteRuns({}, readable, writable)
  /\ UNCHANGED <<listed, today, folders, marked, shot, told>>

HistoryNext ==
  \/ \E c \in AllCameras : Shoot(c)
  \/ Midnight \/ EnableCamera \/ KillRun
  \/ \E date \in 0..Days, force \in BOOLEAN : StartRun(date, force)
  \/ \E cd \in CameraDays, ok, delete \in BOOLEAN : EncodeDay(cd, ok, delete)
  \/ \E readable, writable \in BOOLEAN :
       \/ EndRun(readable, writable)
       \/ Abort(readable, writable)
       \/ EndIdleRun(readable, writable)

HistorySpec == HistoryInit /\ [][HistoryNext]_historyVars

-------------------------------------------------------------------------------
(* Properties.                                                             *)

\* The type invariant.
HistoryTypeOK ==
  /\ listed \subseteq AllCameras /\ today \in 1..(Days + 1)
  /\ marked \subseteq folders /\ folders \subseteq shot /\ shot \subseteq CameraDays
  /\ runs \in Seq(SUBSET CameraDays) /\ Len(runs) <= MaxRuns
  /\ told \subseteq CameraDays /\ lost \subseteq CameraDays

\* "Three rules keep a row from saying something untrue" (missing_days): a camera is
\* reported without frames for a day on which it had none, and once, also when another
\* camera's day is tried again after its own was encoded and deleted; unless the
\* record of that was forgotten, unreadable, unwritable or never made.
NoFramesIsTrue ==
  [][told' # told => (night.none \cap (shot \cup told)) \subseteq lost]_historyVars

\* A run that finds nothing to do says that every day is encoded only when that is so;
\* the date is read a second time for it, and the answer is about another day
\* when midnight passed in between.
IdleAnswerTrue ==
  (night.at = "idle" /\ Answer \in {"all encoded", "only today"} /\ night.found = today)
    => \A cd \in folders : (CameraOf(cd) \in listed /\ DayOf(cd) < today) => cd \in marked
===============================================================================
