------------------------------- MODULE MCDaemon ------------------------------
(***************************************************************************)
(* What runs beside the HTTP cameras, for TLC: an RTSP camera's thread,    *)
(* the disk guard, the fetch of one HTTP frame, and the watches that look  *)
(* at the daemon from outside.  They share no state, so one behaviour has  *)
(* one of them; of the watches, the cameras change in one, the driver in   *)
(* another, and in a third a camera that is gone is enabled and disabled   *)
(* beside one that answers.  Fairness is each module's own, for the part   *)
(* that runs.                                                              *)
(***************************************************************************)
EXTENDS RtspGrabber, DiskGuard, FetchBudget, Watches

CONSTANT Late   \* the camera that is enabled while the daemon runs

VARIABLE part

Watching == {"cameras", "late", "driver"}

MCInit ==
  /\ part \in {"rtsp", "guard", "fetch"} \cup Watching
  /\ GrabberInit /\ GuardInit /\ FetchInit /\ WatchesInit
  /\ part # "rtsp" => cfg = 1
  /\ part # "guard" => free = Capacity
  /\ part # "fetch" => fetchInterval = 2 * Second /\ fetchClock = 0 /\ fine
  /\ part # "cameras" => \A c \in Cameras \ {Late} : cam[c] = "ok"
  /\ cam[Late] = "gone" /\ enabled = Cameras \ {Late}
  /\ part # "driver" => driver.loaded = 1 /\ driver.smi

\* Only the part named takes a step.
Rest ==
  /\ UNCHANGED part
  /\ part # "rtsp" => UNCHANGED grabberVars
  /\ part # "guard" => UNCHANGED guardVars
  /\ part # "fetch" => UNCHANGED fetchVars
  /\ part \notin Watching => UNCHANGED watchVars

MCNext ==
  \/ part = "rtsp" /\ GrabberNext /\ Rest
  \/ part = "guard" /\ GuardNext /\ Rest
  \/ part = "fetch" /\ FetchNext /\ Rest
  \/ /\ part = "cameras" /\ WatchesNext /\ UNCHANGED <<driver, cam[Late]>> /\ Rest
     /\ Late \notin enabled'
  \/ /\ part = "late" /\ WatchesNext /\ UNCHANGED <<driver, cam, watchPaused>> /\ Rest
     /\ Cameras \ {Late} \subseteq enabled'
  \/ /\ part = "driver" /\ WatchesNext /\ UNCHANGED <<cam, enabled, watchPaused>> /\ Rest
     /\ running => running'

Of(p, A) == part = p /\ A
OfWatch(A) == part \in Watching /\ A

MCFairness ==
  /\ WF_grabberVars(Of("rtsp", ThreadEnds)) /\ WF_grabberVars(Of("rtsp", ChooseDay))
  /\ WF_grabberVars(Of("rtsp", PrepareDay)) /\ WF_grabberVars(Of("rtsp", Launch))
  /\ WF_grabberVars(Of("rtsp", SuperviseSees))
  /\ WF_grabberVars(Of("rtsp", SuperviseEnds)) /\ WF_grabberVars(Of("rtsp", Discard))
  /\ WF_watchVars(OfWatch(MinutePasses)) /\ WF_watchVars(OfWatch(DaemonStarts))
  /\ WF_watchVars(OfWatch(WriteBeat)) /\ WF_watchVars(OfWatch(SaveNotified))
  /\ \A c \in Cameras : WF_watchVars(OfWatch(FrameLands(c)))
  /\ SF_watchVars(OfWatch(WatchCameras({}, TRUE, TRUE)))
  /\ SF_watchVars(OfWatch(WatchDriver("take")))

MCSpec ==
  /\ MCInit
  /\ [][MCNext]_<<grabberVars, guardVars, fetchVars, watchVars, part>>
  /\ MCFairness
===============================================================================
