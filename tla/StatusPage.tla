------------------------------- MODULE StatusPage -----------------------------
(***************************************************************************)
(* The overview of the web UI (scripts/timelapse_web.py): what _cameras    *)
(* says of the capture daemon and of a camera, from the heartbeat the      *)
(* daemon wrote (read_state), the frames on disk (scan_day, whose listing  *)
(* is kept for COUNT_TTL) and the clock; and what describe_unit says of a  *)
(* unit, from what systemd says.  The camera is an HTTP camera: of another *)
(* the heartbeat has no last frame.  Time comes in its intervals, five     *)
(* seconds.                                                                *)
(***************************************************************************)
EXTENDS Integers

CONSTANTS
  Limit,       \* camera_verdict: fifteen seconds, or two intervals
  CountTtl,    \* COUNT_TTL
  BeatEvery,   \* STATE_EVERY of the daemon: a heartbeat is written once a minute
  StaleAfter   \* STATE_STALE_AFTER

ASSUME StatusAssumption ==
  /\ Limit \in Nat /\ CountTtl \in Nat \ {0} /\ BeatEvery \in Nat \ {0} /\ StaleAfter \in Nat
  /\ BeatEvery <= StaleAfter

Aging(a, limit) == IF a > limit THEN a ELSE a + 1
Far     == Limit + CountTtl + StaleAfter  \* older than that is old, whoever says so
Nowhere == Far + 2   \* of a frame of neither today nor yesterday: nobody looks there
NoList  == -1
NeverYet == -1

\* An age one interval on; midnight may put what is old out of sight.
Later(a, midnight) == IF midnight /\ a > Far THEN Nowhere ELSE Aging(a, Far)

VARIABLES
  daemon,   \* runs, "stopped" by an end that said so, or "dead"
  answers,  \* the camera delivers
  refuses,  \* ... or the daemon has confirmed that it refuses our credentials
  newest,   \* the age of the newest frame on disk
  listed,   \* the age of the newest frame of the listing in _counts, or NoList
  success,  \* time.time() - last_success, of the daemon's camera, or NeverYet
  bucket,   \* int(time.time() / COUNT_TTL): where in it we are
  beat,     \* capture.json: [running, confirmed, written], and how old last_success
            \* was by then
  since,    \* time.time() - updated_epoch
  steady,   \* history: for how many intervals in a row the camera delivered
  row,      \* what the page that was just made says of the camera
  note,     \* ... and of the daemon
  unit,     \* a service as systemd has it: [active, sub, result, enabled]
  shown     \* ... and as the page does: class and state

camera == <<daemon, answers, refuses, newest, listed, success, bucket, beat, since, steady,
            row, note>>
statusVars == <<camera, unit, shown>>

StatusInit ==
  /\ daemon = "dead" /\ answers \in BOOLEAN /\ refuses = FALSE
  /\ newest = Nowhere /\ listed = NoList /\ success = NeverYet /\ bucket = 0
  /\ beat = [running |-> FALSE, confirmed |-> FALSE, written |-> FALSE, success |-> NeverYet]
  /\ since = StaleAfter + 1 /\ steady = 0 /\ row = "none" /\ note = "none"
  /\ unit = [kind |-> "daemon", active |-> "inactive", sub |-> "dead", result |-> "none",
             enabled |-> TRUE]
  /\ shown = [class |-> "", state |-> "none"]

-------------------------------------------------------------------------------
\* write_state, by a daemon that runs or ends.
Beat(running) ==
  /\ beat' = [running |-> running, confirmed |-> refuses, written |-> TRUE,
              success |-> success']
  /\ since' = 0

StartDaemon ==
  /\ daemon # "runs" /\ daemon' = "runs" /\ success' = NeverYet /\ Beat(TRUE)
  /\ row' = "none" /\ note' = "none"
  /\ UNCHANGED <<answers, refuses, newest, listed, bucket, steady, unit, shown>>

EndDaemon ==
  /\ daemon = "runs" /\ success' = success
  /\ \/ daemon' = "stopped" /\ Beat(FALSE)
     \/ daemon' = "dead" /\ UNCHANGED <<beat, since>>
  /\ row' = "none" /\ note' = "none"
  /\ UNCHANGED <<answers, refuses, newest, listed, bucket, steady, unit, shown>>

CameraChanges ==
  /\ \/ answers' = ~answers /\ refuses' = FALSE
     \/ ~answers /\ refuses' = ~refuses /\ UNCHANGED answers
  /\ row' = "none" /\ note' = "none"
  /\ UNCHANGED <<daemon, newest, listed, success, bucket, beat, since, steady, unit, shown>>

\* The frame of this interval.
Frame ==
  /\ daemon = "runs" /\ answers /\ newest # 0 /\ newest' = 0 /\ success' = 0
  /\ row' = "none" /\ note' = "none"
  /\ UNCHANGED <<daemon, answers, refuses, listed, bucket, beat, since, steady, unit, shown>>

\* An interval is over: a camera that answers has delivered in it, and the heartbeat
\* was written in time.
IntervalEnds ==
  /\ daemon = "runs" => since < BeatEvery
  /\ daemon = "runs" /\ answers => newest = 0
  /\ steady' = IF newest = 0 THEN Aging(steady, CountTtl) ELSE 0
  /\ bucket' = (bucket + 1) % CountTtl
  /\ \E midnight \in BOOLEAN :
       /\ newest' = Later(newest, midnight)
       /\ listed' = IF bucket' = 0 \/ listed = NoList THEN NoList ELSE Later(listed, midnight)
  /\ success' = IF success = NeverYet THEN NeverYet ELSE Aging(success, Far)
  /\ since' = Aging(since, StaleAfter)
  /\ row' = "none" /\ note' = "none"
  /\ UNCHANGED <<daemon, answers, refuses, beat, unit, shown>>

Heartbeat ==
  /\ daemon = "runs" /\ success' = success /\ Beat(TRUE)
  /\ row' = "none" /\ note' = "none"
  /\ UNCHANGED <<daemon, answers, refuses, newest, listed, bucket, steady, unit, shown>>

\* A slip: the heartbeat is asked first.
QuietAtHeartbeat(age) == IF beat.success # NeverYet THEN beat.success ELSE age

\* last_frame_epoch, against now: "a file on disk has none of the heartbeat's lag".
\* Where no frame is found: silence_seconds, how long the camera had been quiet when
\* the heartbeat was written.
Quiet(age) == IF age = Nowhere THEN beat.success ELSE age

\* camera_verdict.  "was ok" is as green as "ok", and of the time of the heartbeat.
Verdict(age) ==
  IF beat.confirmed THEN "refusing"
  ELSE IF Quiet(age) = NeverYet THEN "no frame yet"
  ELSE IF Quiet(age) > Limit THEN "bad"
  ELSE IF age = Nowhere THEN "was ok" ELSE "ok"

Note ==
  IF ~beat.running THEN "stopped" ELSE IF since > StaleAfter THEN "wedged" ELSE "runs"

\* _cameras: scan_day lists the directory once in a bucket; one that cannot be read
\* has no frame, and is tried again.
View ==
  /\ \/ listed' = IF listed = NoList THEN newest ELSE listed
     \/ listed = NoList /\ UNCHANGED listed
  /\ LET age == IF listed' = NoList THEN Nowhere ELSE listed'
     IN  row' = IF beat.written THEN Verdict(age) ELSE "none"
  /\ note' = IF beat.written THEN Note ELSE "none"
  /\ UNCHANGED <<daemon, answers, refuses, newest, success, bucket, beat, since, steady, unit,
                 shown>>

-------------------------------------------------------------------------------
(* The services table.                                                     *)

Becomes(active, sub, result) ==
  /\ unit' = [unit EXCEPT !.active = active, !.sub = sub, !.result = result]
  /\ shown' = [class |-> "", state |-> "none"] /\ UNCHANGED camera

\* A unit of another kind is looked at.
OtherUnit ==
  /\ unit.active = "inactive"
  /\ \E kind \in {"daemon", "oneshot"}, enabled \in BOOLEAN :
       unit' = [unit EXCEPT !.kind = kind, !.enabled = enabled, !.result = "none"]
  /\ shown' = [class |-> "", state |-> "none"] /\ UNCHANGED camera

\* systemd starts it; a daemon is up at once, a oneshot is "activating" while it works.
UnitStarts ==
  /\ unit.active \in {"inactive", "failed"} \/ unit.sub = "auto-restart"
  /\ IF unit.kind = "oneshot" THEN Becomes("activating", "start", unit.result)
     ELSE Becomes("active", "running", unit.result)

\* It ends well, or badly: Restart=always starts a daemon again, until it is given up.
UnitEnds(good) ==
  /\ unit.sub \in {"start", "running"}
  /\ IF good THEN Becomes("inactive", "dead", "success")
     ELSE IF unit.kind = "daemon" THEN Becomes("activating", "auto-restart", "exit-code")
     ELSE Becomes("failed", "failed", "exit-code")
UnitGivenUp ==
  unit.sub = "auto-restart" /\ Becomes("failed", "failed", "start-limit-hit")

\* describe_unit, for the states that the units of this program come to.
Describe(u) ==
  CASE u.active = "failed"      -> [class |-> "bad", state |-> "Failed"]
    [] u.sub = "auto-restart"   -> [class |-> "bad", state |-> "Restarting"]
    [] u.active = "activating"  -> [class |-> "ok", state |-> "Running"]
    [] u.active = "active"      -> [class |-> "ok", state |->
                                    IF u.enabled THEN "Running" ELSE "Running, not enabled"]
    [] u.kind # "oneshot"       -> [class |-> "bad", state |-> "Stopped"]
    [] u.result = "none"        -> [class |-> "", state |-> "Not yet run"]
    [] u.result = "success"     -> [class |-> "ok", state |-> "Successful"]
    [] OTHER                    -> [class |-> "bad", state |-> "Failed"]

ViewServices ==
  /\ shown' = Describe(unit) /\ UNCHANGED <<camera, unit>>

StatusNext ==
  \/ StartDaemon \/ EndDaemon \/ CameraChanges \/ Frame \/ IntervalEnds \/ Heartbeat \/ View
  \/ OtherUnit \/ UnitStarts \/ UnitGivenUp \/ ViewServices
  \/ \E good \in BOOLEAN : UnitEnds(good)

StatusSpec == StatusInit /\ [][StatusNext]_statusVars

-------------------------------------------------------------------------------
(* Properties.                                                             *)

\* The type invariant.
StatusTypeOK ==
  /\ newest \in 0..Nowhere /\ listed \in {NoList} \cup 0..Nowhere
  /\ success \in {NeverYet} \cup 0..(Far + 1)
  /\ bucket \in 0..(CountTtl - 1) /\ since \in 0..(StaleAfter + 1)
  /\ row \in {"none", "ok", "was ok", "bad", "refusing", "no frame yet"}
  /\ note \in {"none", "runs", "stopped", "wedged"}

\* The page never looks better than it says.  A row is green with a frame on disk that
\* is not older than the limit, however old the listing and the heartbeat are.  It is
\* green without one, when no frame of today or yesterday can be found, for what the
\* heartbeat says: not later than a heartbeat is good for, unless the page says that
\* the daemon has stopped or does not write it; then the camera may be silent for
\* days.  And a daemon that is gone is said to be gone as soon as its heartbeat is old.
NeverTooGreen ==
  /\ row = "ok" => newest <= Limit
  /\ row = "was ok" => newest <= Limit + StaleAfter \/ note \in {"stopped", "wedged"}
  /\ note = "runs" => daemon = "runs" \/ since <= StaleAfter
  /\ (note \in {"stopped", "wedged"} /\ beat.written) => daemon # "runs"

\* "What counts as quiet depends on that camera's interval", "at a 5-second cadence a
\* single slow fetch would otherwise paint the row red": the row of a camera that
\* has delivered every frame for as long as a listing is kept is not red.
HealthyIsGreen == row = "bad" => steady <= CountTtl

\* A unit whose last run failed is red, unless it is running again; one that is green
\* is at work or has succeeded.
ServicesHonest ==
  shown.state # "none" =>
    /\ (unit.result \in {"exit-code", "start-limit-hit"} /\ unit.sub \notin {"start", "running"})
         => shown.class = "bad"
    /\ shown.class = "ok" => unit.sub \in {"start", "running"} \/ unit.result = "success"
===============================================================================
