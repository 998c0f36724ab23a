---------------------------- MODULE ServiceHost ----------------------------
(***************************************************************************)
(* Capture as a Windows service: run_as_service, which puts the daemon     *)
(* between the service manager's two threads; install, stop, start and     *)
(* remove in timelapse_platform.py; and those who call them: the installer *)
(* (install_units, restart_units, remove_units) and the last page of the   *)
(* graphical wizard.  What the service manager does by itself is external: *)
(* it starts a process at boot or on request, hands it controls its state  *)
(* accepts, and runs the failure actions it was given.                     *)
(***************************************************************************)
EXTENDS Integers

CONSTANTS MaxJobs,  \* bound: things asked for
          MaxFaults \* bound: exceptions, kills and files that do not load

ASSUME ServiceAssumption == MaxJobs \in Nat /\ MaxFaults \in Nat

VARIABLES scm,    \* the state the service manager holds
          repair, \* which ends have a failure action: "none", "kills", "all"
          queued, \* a restart waits for its delay
          doomed, \* deleted while it ran
          proc,   \* the process: [at, live, stop, conf, answer]
          conf,   \* the configuration file, counted in saves
          job,    \* what is being done to the service: [kind, at, ok]
          jobs, faults,
          fell,   \* history: this run of the process ended in a fault
          quiet,  \* history: it was stopped, and nobody has started it since
          crashed,\* history: it failed, and has neither come back nor been stopped
          missed, \* history: the wizard could not see whether it ran
          seen    \* history: the configuration running when last seen RUNNING

serviceVars == <<scm, repair, queued, doomed, proc, conf, job, jobs, faults,
                 fell, quiet, crashed, missed, seen>>

NoProc == [at |-> "none", live |-> "stopped", stop |-> FALSE, conf |-> -1,
           answer |-> "no"]
NoJob == [kind |-> "none", at |-> "idle", ok |-> TRUE]

ServiceInit ==
    /\ scm = "absent" /\ repair = "none" /\ queued = FALSE /\ doomed = FALSE
    /\ proc = NoProc /\ conf = 0 /\ job = NoJob /\ jobs = 0 /\ faults = 0
    /\ fell = FALSE /\ quiet = FALSE /\ crashed = FALSE /\ missed = FALSE
    /\ seen = -1

----------------------------------------------------------------------------
(* The process.                                                            *)

(* report: SetServiceStatus, and the handler's own copy of it.             *)
Report(p, state) == scm' = state /\ proc' = [p EXCEPT !.live = state]

(* External: the manager has started the process, which registers its      *)
(* handler and reports START_PENDING.                                      *)
Launch ==
    /\ scm = "stopped" /\ proc.at = "none"
    /\ Report([NoProc EXCEPT !.at = "loading"], "start_pending")
    /\ queued' = FALSE /\ fell' = FALSE

(* Slip: the exit code is not passed on.                                   *)
EndedCleanly(failed) ==
    /\ scm' = (IF doomed THEN "absent" ELSE "stopped") /\ doomed' = FALSE
    /\ proc' = NoProc /\ queued' = FALSE

(* Slip: every end of the body is reported as a failure.                   *)
EndedBadly(failed) ==
    /\ scm' = (IF doomed THEN "absent" ELSE "stopped") /\ doomed' = FALSE
    /\ proc' = NoProc /\ queued' = (repair = "all" /\ ~doomed)

(* on_main's last report: STOPPED, with an exit code.  The code is all     *)
(* that tells a stop from a failure, and a failure is acted on when the    *)
(* flag for reported failures was set.                                     *)
Ended(failed) ==
    /\ scm' = (IF doomed THEN "absent" ELSE "stopped") /\ doomed' = FALSE
    /\ proc' = NoProc /\ queued' = (failed /\ repair = "all" /\ ~doomed)

(* run_daemon reads its configuration once, then starts the cameras.       *)
LoadConfig ==
    /\ proc.at = "loading" /\ proc' = [proc EXCEPT !.at = "loaded", !.conf = conf]
    /\ UNCHANGED <<scm, repair, queued, doomed, conf, job, jobs, faults, fell,
                   quiet, crashed, missed, seen>>

(* ready(): RUNNING, once the cameras run.                                 *)
Ready ==
    /\ proc.at = "loaded"
    /\ Report([proc EXCEPT !.at = "capturing"], "running")
    /\ crashed' = FALSE
    /\ UNCHANGED <<repair, queued, doomed, conf, job, jobs, faults, fell, quiet,
                   missed, seen>>

SeesStop ==
    /\ proc.at = "capturing" /\ proc.stop
    /\ proc' = [proc EXCEPT !.at = "joining"]
    /\ UNCHANGED <<scm, repair, queued, doomed, conf, job, jobs, faults, fell,
                   quiet, crashed, missed, seen>>

(* The threads are joined and the heartbeat says so.                       *)
BodyReturns ==
    /\ proc.at = "joining" /\ Ended(FALSE)
    /\ UNCHANGED <<repair, conf, job, jobs, faults, fell, quiet, crashed,
                   missed, seen>>

Fault(acted) ==
    /\ proc.at # "none" /\ faults < MaxFaults /\ faults' = faults + 1
    /\ fell' = TRUE
    /\ crashed' = (acted /\ ~doomed /\ (crashed \/ ~proc.stop))

(* A configuration that does not load, no enabled camera, anything the     *)
(* daemon does not catch: service_main's guard.                            *)
BodyRaises ==
    /\ Fault(repair = "all") /\ Ended(TRUE)
    /\ UNCHANGED <<repair, conf, job, jobs, quiet, missed, seen>>

(* The process is ended from outside and reports nothing.                  *)
Killed ==
    /\ Fault(repair # "none") /\ proc' = NoProc
    /\ scm' = (IF doomed THEN "absent" ELSE "stopped") /\ doomed' = FALSE
    /\ queued' = (repair # "none" /\ ~doomed)
    /\ UNCHANGED <<repair, conf, job, jobs, quiet, missed, seen>>

(* on_control, the manager's thread.  STOP is accepted only by RUNNING.    *)
OnStop ==
    /\ scm = "running" /\ proc.answer = "no"
    /\ Report([proc EXCEPT !.stop = TRUE], "stop_pending")

(* INTERROGATE answers with the state it has just read: the body may       *)
(* report another in between.                                              *)
Interrogate ==
    /\ proc.at # "none" /\ proc.answer = "no"
    /\ proc' = [proc EXCEPT !.answer = proc.live]
    /\ UNCHANGED <<scm, repair, queued, doomed, conf, job, jobs, faults, fell,
                   quiet, crashed, missed, seen>>

Answers ==
    /\ proc.answer # "no"
    /\ Report([proc EXCEPT !.answer = "no"], proc.answer)
    /\ UNCHANGED <<repair, queued, doomed, conf, job, jobs, faults, fell, quiet,
                   crashed, missed, seen>>

(* External: the restart delay is over, or the machine has booted.         *)
FailureAction ==
    /\ queued /\ Launch
    /\ UNCHANGED <<repair, doomed, conf, job, jobs, faults, quiet, crashed,
                   missed, seen>>

Boot ==
    /\ job = NoJob /\ jobs < MaxJobs /\ jobs' = jobs + 1
    /\ scm # "absent"
    /\ scm' = "start_pending" /\ queued' = FALSE /\ fell' = FALSE
    /\ doomed' = FALSE
    /\ proc' = [NoProc EXCEPT !.at = "loading", !.live = "start_pending"]
    /\ quiet' = FALSE
    /\ UNCHANGED <<repair, conf, job, faults, crashed, missed, seen>>

----------------------------------------------------------------------------
(* Those who call: one at a time, an elevated prompt.                      *)

Step(at) == job' = [job EXCEPT !.at = at]
Done(ok) == job' = [job EXCEPT !.at = "done", !.ok = ok]

(* The page that finishes writes the file first; the installer registers.  *)
Begin(kind) ==
    /\ job = NoJob /\ jobs < MaxJobs /\ jobs' = jobs + 1
    /\ job' = [NoJob EXCEPT !.kind = kind,
                            !.at = CASE kind \in {"finish", "restart"} -> "look"
                                     [] kind = "start" -> "start"
                                     [] kind \in {"stop", "remove"} -> "stop"
                                     [] kind = "install" -> "register"]
    /\ conf' = IF kind = "finish" THEN conf + 1 ELSE conf
    /\ missed' = FALSE /\ seen' = -1
    /\ quiet' = (quiet /\ kind \notin {"start", "finish"})
    /\ UNCHANGED <<scm, repair, queued, doomed, proc, faults, fell, crashed>>

(* install_service: created, or changed in place; each failure setting may *)
(* be refused, which is said and undoes nothing.                           *)
Register ==
    /\ job.at = "register"
    /\ IF doomed THEN Done(FALSE) /\ UNCHANGED <<scm, repair>>
       ELSE /\ scm' = IF scm = "absent" THEN "stopped" ELSE scm
            /\ repair' \in {"none", "kills", "all"}
            /\ Done(TRUE)
    /\ UNCHANGED <<queued, doomed, proc, conf, jobs, faults, fell, quiet,
                   crashed, missed, seen>>

(* Slip: the wizard starts capture and restarts nothing.                   *)
LookPastIt ==
    /\ job.at = "look" /\ Step("look_again")
    /\ UNCHANGED <<scm, repair, queued, doomed, proc, conf, jobs, faults, fell,
                   quiet, crashed, missed, seen>>

(* restart_units: whatever is RUNNING, when that can be asked.             *)
Look ==
    /\ job.at = "look"
    /\ \E answered \in BOOLEAN :
         /\ \/ answered /\ scm = "running" /\ Step("stop")
            \/ ~(answered /\ scm = "running")
               /\ IF job.kind = "finish" THEN Step("look_again") ELSE Done(TRUE)
         /\ missed' = (~answered \/ scm \notin {"running", "stopped", "absent"})
    /\ UNCHANGED <<scm, repair, queued, doomed, proc, conf, jobs, faults, fell,
                   quiet, crashed, seen>>

(* What a failed stop means to each of them.                               *)
StopFailed ==
    CASE job.kind = "finish" -> Step("look_again")
      [] job.kind = "remove" -> Step("delete")
      [] OTHER -> Done(FALSE)

Stopped ==
    CASE job.kind = "stop" -> Done(TRUE)
      [] job.kind = "remove" -> Step("delete")
      [] OTHER -> Step("start")

(* stop_service: ControlService, an already stopped service a success.     *)
StopService ==
    /\ job.at = "stop"
    /\ \/ OnStop /\ Step("await_stopped") /\ crashed' = FALSE /\ UNCHANGED quiet
       \/ /\ scm = "stopped" /\ Stopped
          /\ quiet' = (job.kind = "stop" /\ ~queued)
          /\ UNCHANGED <<scm, proc, crashed>>
       \/ /\ scm \notin {"running", "stopped"} /\ StopFailed
          /\ UNCHANGED <<scm, proc, quiet, crashed>>
    /\ UNCHANGED <<repair, queued, doomed, conf, jobs, faults, fell, missed, seen>>

(* _await_state: the state wanted is read, or patience runs out.           *)
AwaitStopped ==
    /\ job.at = "await_stopped"
    /\ \/ /\ scm = "stopped" /\ Stopped
          /\ quiet' = (job.kind = "stop" /\ ~fell)
       \/ scm # "stopped" /\ StopFailed /\ UNCHANGED quiet
    /\ UNCHANGED <<scm, repair, queued, doomed, proc, conf, jobs, faults, fell,
                   crashed, missed, seen>>

(* start_service: StartServiceW refuses what is not STOPPED.               *)
StartService ==
    /\ job.at = "start"
    /\ \/ Launch /\ Step("await_running")
       \/ scm # "stopped" /\ Done(FALSE) /\ UNCHANGED <<scm, proc, queued, fell>>
    /\ UNCHANGED <<repair, doomed, conf, jobs, faults, quiet, crashed, missed, seen>>

AwaitRunning ==
    /\ job.at = "await_running"
    /\ \/ scm = "running" /\ seen' = proc.conf
          /\ IF job.kind = "finish" THEN Step("look_again") ELSE Done(TRUE)
       \/ scm # "running" /\ UNCHANGED seen
          /\ IF job.kind = "finish" THEN Step("look_again") ELSE Done(FALSE)
    /\ UNCHANGED <<scm, repair, queued, doomed, proc, conf, jobs, faults, fell,
                   quiet, crashed, missed>>

(* start_capture, after restart_units: only a plain yes is taken for one.  *)
LookAgain ==
    /\ job.at = "look_again"
    /\ \/ scm = "running" /\ seen' = proc.conf /\ Done(TRUE)
       \/ UNCHANGED seen /\ job' = [job EXCEPT !.kind = "start_capture", !.at = "start"]
    /\ UNCHANGED <<scm, repair, queued, doomed, proc, conf, jobs, faults, fell,
                   quiet, crashed, missed>>

(* remove_units: deleted at once, or when it stops.                        *)
Delete ==
    /\ job.at = "delete"
    /\ IF scm = "stopped" THEN scm' = "absent" /\ UNCHANGED doomed
       ELSE doomed' = (scm # "absent") /\ UNCHANGED scm
    /\ queued' = FALSE /\ crashed' = FALSE /\ Done(TRUE)
    /\ UNCHANGED <<repair, proc, conf, jobs, faults, fell, quiet, missed, seen>>

(* The dialog is closed, the prompt is back.                               *)
Dismiss ==
    /\ job.at = "done" /\ job' = NoJob
    /\ UNCHANGED <<scm, repair, queued, doomed, proc, conf, jobs, faults, fell,
                   quiet, crashed, missed, seen>>

----------------------------------------------------------------------------
Requests == {"finish", "restart", "start", "stop", "remove", "install"}

Process == \/ LoadConfig \/ Ready \/ SeesStop \/ BodyReturns \/ BodyRaises
           \/ Killed \/ Interrogate \/ Answers \/ FailureAction \/ Boot

Caller == \/ \E kind \in Requests : Begin(kind)
          \/ Register \/ Look \/ StopService \/ AwaitStopped \/ StartService
          \/ AwaitRunning \/ LookAgain \/ Delete \/ Dismiss

ServiceNext == Process \/ Caller

ServiceFairness ==
    /\ WF_serviceVars(LoadConfig) /\ WF_serviceVars(Ready)
    /\ WF_serviceVars(FailureAction)

ServiceSpec == ServiceInit /\ [][ServiceNext]_serviceVars /\ ServiceFairness

----------------------------------------------------------------------------
(* install_service: "STOPPED with a non-zero exit code queues the restart, *)
(* and a `sc stop` still reports zero and does not."  A daemon that raised *)
(* or was killed captures again by itself, unless it was stopped or        *)
(* removed, or the installer said that no restart could be set.            *)
CrashedComesBack == [](crashed => <>~crashed)

(* And once a stop was confirmed, nothing brings the service back but an   *)
(* operator or a boot; a stop that ended in a fault of its own excepted.   *)
StoppedStaysStopped == quiet => proc.at = "none"

(* When the wizard's last page says that capture is running, it runs on    *)
(* the settings just saved, whatever the service was doing when it was     *)
(* restarted and whatever failed on the way; unless the wizard looked      *)
(* while it was starting or stopping, or could not ask.                    *)
NewSettingsRun ==
    job.kind \in {"finish", "start_capture"} /\ job.at = "done" /\ job.ok /\ ~missed
    => seen = conf
=============================================================================
