-------------------------------- MODULE Updates -------------------------------
(***************************************************************************)
(* Knowing of a new version and installing it: the update checker of the   *)
(* web UI (UpdateChecker in scripts/timelapse_web.py), which asks GitHub   *)
(* when a page is viewed and its answer is old, and remembers the answer   *)
(* over a restart; and `timelapse update` (scripts/timelapse_update.py),   *)
(* which replaces the program the checker runs in.  Versions are numbers;  *)
(* time comes in units of UPDATE_RETRY.                                    *)
(***************************************************************************)
EXTENDS Integers, FiniteSets

CONSTANTS
  Interval,   \* UPDATE_INTERVAL and UPDATE_RETRY_MAX, a day
  Versions    \* bound: the versions there will be, 1..Versions

ASSUME UpdatesAssumption == Interval \in Nat \ {0} /\ Versions \in Nat \ {0}

Never == Interval + 1          \* the age of what has not happened
Blank == [checked |-> Never, attempted |-> Never, failures |-> 0, latest |-> 0]
Torn  == Blank                 \* a file that is not JSON reads as none
Threads == {1, 2}              \* at most one checks, another may be saving still
NoSave  == [at |-> "none"]

VARIABLES
  upstream,   \* the newest version GitHub has
  installed,  \* the version on disk
  running,    \* the version of the web service, 0 while it is down
  known,      \* UpdateChecker.state, times as ages: [checked, attempted, failures, latest]
  asking,     \* the thread in _check that holds _busy, 0 for none
  saving,     \* of each thread: what it is writing to update.tmp
  cache,      \* update.json
  cli,        \* the run of `timelapse update`
  tried,      \* history: the age of the last request to GitHub that was answered or failed
  heard,      \* history: the age of the last answer
  streak,     \* history: how many requests failed since, as far as it matters
  forgot      \* history: a restart lost the outcome of a request

web    == <<running, known, asking, saving, cache>>
asked  == <<tried, heard, streak, forgot>>
updateVars == <<upstream, installed, web, cli, asked>>

NoCli == [at |-> "none"]

UpdatesInit ==
  /\ upstream = 1 /\ installed = 1 /\ running = 1
  /\ known = Blank /\ asking = 0 /\ saving = [t \in Threads |-> NoSave]
  /\ cache = Blank /\ cli = NoCli
  /\ tried = Never /\ heard = Never /\ streak = 0 /\ forgot = FALSE

Least(a, b) == IF a < b THEN a ELSE b

\* _retry_at: how old the last attempt must be; doubling, up to a day.
Wait(failures) == Least(2 ^ (failures - 1), Interval)

\* What has happened often enough for the wait to be a day is not counted further.
MaxStreak == CHOOSE n \in 1..(Interval + 1) : Wait(n) = Interval /\ \A m \in 1..(n - 1) : Wait(m) < Interval

\* A slip: an answer is an answer.
DueUntilKnown(s) == s.checked = Never /\ s.attempted >= Wait(s.failures + 1)

Due(s) == IF s.failures > 0 THEN s.attempted >= Wait(s.failures) ELSE s.checked >= Interval

-------------------------------------------------------------------------------
(* The update checker.                                                     *)

\* refresh: a thread is started unless one is at it, or the answer is fresh; the
\* button of the panel does not ask whether it is.
Refresh(force) ==
  /\ running > 0 /\ asking = 0 /\ (force \/ Due(known))
  /\ \E t \in Threads : saving[t] = NoSave
  /\ asking' = IF saving[1] = NoSave THEN 1 ELSE 2
  /\ UNCHANGED <<upstream, installed, running, known, saving, cache, cli, asked>>

\* _check: the answer; _busy is given back before the state is saved.
Answered ==
  /\ asking # 0
  /\ known' = [checked |-> 0, attempted |-> 0, failures |-> 0, latest |-> upstream]
  /\ asking' = 0 /\ saving' = [saving EXCEPT ![asking] = [at |-> "due"]]
  /\ tried' = 0 /\ heard' = 0 /\ streak' = 0 /\ forgot' = FALSE
  /\ UNCHANGED <<upstream, installed, running, cache, cli>>

\* "checked" is deliberately not touched.
Failed == [known EXCEPT !.attempted = 0, !.failures = Least(@ + 1, MaxStreak)]

CheckFails ==
  /\ asking # 0 /\ known' = Failed
  /\ asking' = 0 /\ saving' = [saving EXCEPT ![asking] = [at |-> "due"]]
  /\ tried' = 0 /\ streak' = Least(streak + 1, MaxStreak)
  /\ UNCHANGED <<upstream, installed, running, cache, cli, heard, forgot>>

\* _save: the live state is written to update.tmp, outside of the lock ...
WriteTmp(t) ==
  /\ saving[t].at = "due" /\ saving' = [saving EXCEPT ![t] = [at |-> "written", state |-> known]]
  /\ UNCHANGED <<upstream, installed, running, known, asking, cache, cli, asked>>

\* ... and put in place.  Another thread may be writing the same update.tmp: then
\* either's bytes, or some of both, or none, are what is put in place.
PutInPlace(t) ==
  LET mates == {u \in Threads \ {t} : saving[u].at = "written"} IN
  /\ saving[t].at = "written" /\ saving' = [saving EXCEPT ![t] = NoSave]
  /\ cache' \in {saving[t].state}
                \cup (IF mates = {} THEN {} ELSE {Torn, cache} \cup {saving[u].state : u \in mates})
  /\ UNCHANGED <<upstream, installed, running, known, asking, cli, asked>>

\* The state directory cannot be written.
SaveFails(t) ==
  /\ saving[t].at # "none" /\ saving' = [saving EXCEPT ![t] = NoSave]
  /\ UNCHANGED <<upstream, installed, running, known, asking, cache, cli, asked>>

\* The service ends, by the installer or otherwise, with whatever its threads were at.
Stop ==
  /\ running > 0 /\ running' = 0 /\ asking' = 0
  /\ saving' = [t \in Threads |-> NoSave] /\ known' = Blank
  /\ UNCHANGED <<upstream, installed, cache, cli, asked>>

\* _load.
Start ==
  /\ running = 0 /\ running' = installed /\ known' = cache
  /\ forgot' = (forgot \/ cache.attempted # tried \/ cache.checked # heard
                     \/ cache.failures # streak)
  /\ UNCHANGED <<upstream, installed, asking, saving, cache, cli, tried, heard, streak>>

\* A slip: the panel shows the answer it has.
LatestAsCached == known.latest

\* snapshot and _update_panel: what the panel says.  "Upstream cannot be behind what
\* is installed here", so an answer older than that is not shown.
LatestShown == IF known.latest > 0 /\ running > known.latest THEN running ELSE known.latest
Known       == known.checked < Never

-------------------------------------------------------------------------------
(* The command.                                                            *)

Newer(ref, given) == given > 0 \/ ref > installed

\* main: what would be installed, that of --ref or the latest there is (latest_release,
\* which may fail); --check only tells, and only root is offered more.
UpdateStarts ==
  /\ cli = NoCli
  /\ \E check, force, root \in BOOLEAN, given \in 0..upstream :
       LET ref == IF given > 0 THEN given ELSE upstream IN
       /\ (Newer(ref, given) \/ force) /\ ~check /\ root
       /\ cli' = [at |-> "offered", ref |-> ref, from |-> installed,
                  asked |-> given > 0 \/ force]
  /\ UNCHANGED <<upstream, installed, web, asked>>

\* Declined, GitHub out of reach, or killed.
CliEnds ==
  /\ cli # NoCli /\ cli' = NoCli
  /\ UNCHANGED <<upstream, installed, web, asked>>

\* fetch_installer refuses a text that is longer than an installer or has no mark of
\* one, check_syntax one that is not valid bash.
Fetch(what) ==
  /\ cli.at = "offered"
  /\ cli' = IF what = "installer" THEN [cli EXCEPT !.at = "fetched"] ELSE NoCli
  /\ UNCHANGED <<upstream, installed, web, asked>>

\* run_installer: the tree of that ref replaces the installed one, if it gets that far.
Install(done) ==
  /\ cli.at = "fetched" /\ cli' = NoCli
  /\ installed' = IF done THEN cli.ref ELSE installed
  /\ UNCHANGED <<upstream, web, asked>>

\* install.sh, run by hand or by another `timelapse update`: there is no lock.
OtherInstall ==
  /\ installed # upstream /\ installed' = upstream
  /\ UNCHANGED <<upstream, web, cli, asked>>

-------------------------------------------------------------------------------
Release ==
  /\ upstream < Versions /\ upstream' = upstream + 1
  /\ UNCHANGED <<installed, web, cli, asked>>

\* A release is taken back.
Withdraw ==
  /\ upstream > 1 /\ upstream' = upstream - 1
  /\ UNCHANGED <<installed, web, cli, asked>>

Older(a) == IF a < Interval THEN a + 1 ELSE a

Aged(s) == [s EXCEPT !.checked = Older(@), !.attempted = Older(@)]

\* A request takes less than a unit.
Hour ==
  /\ asking = 0 /\ \A t \in Threads : saving[t] = NoSave
  /\ known' = Aged(known) /\ cache' = Aged(cache)
  /\ tried' = Older(tried) /\ heard' = Older(heard)
  /\ UNCHANGED <<upstream, installed, running, asking, saving, cli, streak, forgot>>

UpdatesNext ==
  \/ \E force \in BOOLEAN : Refresh(force)
  \/ Answered \/ CheckFails \/ Stop \/ Start \/ Hour \/ Release \/ Withdraw \/ OtherInstall
  \/ \E t \in Threads : WriteTmp(t) \/ PutInPlace(t) \/ SaveFails(t)
  \/ UpdateStarts \/ CliEnds
  \/ \E what \in {"installer", "something else"} : Fetch(what)
  \/ \E done \in BOOLEAN : Install(done)

\* The overview is viewed now and then, and GitHub answers now and then.
UpdatesFairness ==
  /\ WF_updateVars(Hour) /\ WF_updateVars(Start)
  /\ WF_updateVars(Refresh(FALSE)) /\ SF_updateVars(Answered)
  /\ \A t \in Threads : WF_updateVars(WriteTmp(t)) /\ WF_updateVars(PutInPlace(t))

UpdatesSpec == UpdatesInit /\ [][UpdatesNext]_updateVars /\ UpdatesFairness

-------------------------------------------------------------------------------
(* Properties.                                                             *)

\* The type invariant.
UpdatesTypeOK ==
  /\ upstream \in 1..Versions /\ installed \in 1..Versions /\ running \in 0..Versions
  /\ known \in [checked : 0..Never, attempted : 0..Never, failures : 0..MaxStreak,
                latest : 0..Versions]
  /\ asking \in {0} \cup Threads /\ tried \in 0..Never /\ heard \in 0..Never
  /\ streak \in 0..MaxStreak /\ forgot \in BOOLEAN

\* "at most once a day", and after a failure neither at once nor a day later ("used to
\* make a momentary DNS failure cost a full day"): the next request of its own is due
\* when the real outcomes of the last ones say so, also after a restart, unless the
\* restart found a cache that does not have them.
AsksWhenDue ==
  running > 0 /\ ~forgot =>
    (Due(known) <=> IF streak > 0 THEN tried >= Wait(streak) ELSE heard >= Interval)

\* The panel never shows a version older than the one that runs as the latest, nor
\* claims a check that was not made, whatever was installed or cached meanwhile.
PanelHonest ==
  running > 0 => /\ LatestShown = 0 \/ LatestShown >= running
                 /\ Known => heard <= known.checked

\* The panel comes to show the latest release, if its pages are viewed and GitHub
\* answers now and then.
UpdateNoticed ==
  <>[](running > 0) /\ <>[][upstream' = upstream]_updateVars =>
    <>[](LatestShown = IF upstream > running THEN upstream ELSE running)

\* `timelapse update` goes back to an older version only if that was asked for, or if
\* somebody else installed one while it was waiting for its answer.
NoDowngrade ==
  [][cli # NoCli /\ cli' = NoCli /\ installed' < installed =>
       cli.asked \/ cli.from # installed]_updateVars
===============================================================================
