------------------------------- MODULE EncodeRun -------------------------------
(***************************************************************************)
(* The encode runs (scripts/timelapse_encode.py, main): which days a run   *)
(* takes on, how a day's frames become a video, when they are marked and   *)
(* deleted, and how the videos leave for the library.  A run is started by *)
(* the nightly timer or by hand, the run lock keeps two apart where it can *)
(* be taken, and any of them may be killed anywhere.  The capture daemon   *)
(* is the environment: it adds frames to the directory of the current day, *)
(* and now and then to the one of the day before.                          *)
(***************************************************************************)
EXTENDS Integers, FiniteSets

CONSTANTS
  Cameras,          \* the enabled cameras
  MaxDay,           \* bound: the days of the model are 1..MaxDay
  Frames,           \* bound: the frames a camera may capture in a day
  Garbage,          \* what two processes writing one .part leave in a video
  MinFrames,        \* encode.min_frames: fewer is not worth a video
  MaxBacklog,       \* encode.max_backlog_days; 0 is no cap
  Runs,             \* encode processes that may exist
  ByHand,           \* the dates an operator may start a run for; 0 is no --date
  MarkerMayFail,    \* TRUE: writing .encoded.json may raise OSError
  DeletionMayStop,  \* TRUE: rmtree may leave entries behind
  LockMayFail,      \* TRUE: the lock file may be one that cannot be opened
  LateFrames,       \* TRUE: a frame may be filed under the day before
  MaxCrashes        \* bound: runs killed or aborted

ASSUME EncodeAssumption ==
  /\ MaxDay \in Nat \ {0} /\ MinFrames \in Nat \ {0}
  /\ MaxBacklog \in Nat /\ MaxCrashes \in Nat
  /\ IsFiniteSet(Frames) /\ Garbage \notin Frames
  /\ ByHand \subseteq 0..MaxDay
  /\ {MarkerMayFail, DeletionMayStop, LockMayFail, LateFrames} \subseteq BOOLEAN

Days   == 1..MaxDay
Jobs   == Cameras \X Days
NoDate == 0      \* the nightly run: no --date
NoJob  == <<>>

VARIABLES
  today,      \* the local date
  captured,   \* history: every frame a camera-day ever had
  disk,       \* the frames in its directory
  dirs,       \* the camera-days that have a directory
  marked,     \* ... with an .encoded.json
  out,        \* its video in video_output: the frames in it; {} is no video
  lib,        \* its video in the library
  locked,     \* the runs that hold the lock
  pc,         \* of each run: idle, loop, encoding, encoded, marked
  todo,       \* the jobs the run has not come to
  job,        \* the job it is at
  listed,     \* the frames it listed for that job
  crashes,    \* runs killed so far
  done,       \* history: the days marked at some time
  crossed     \* history: the jobs that something got at while a run was at them

store == <<disk, dirs, marked>>
runs  == <<locked, pc, todo, job, listed>>
vars  == <<today, captured, store, out, lib, runs, crashes, done, crossed>>

-------------------------------------------------------------------------------
Init ==
  /\ today = 1 /\ crashes = 0
  /\ captured = [j \in Jobs |-> {}] /\ disk = [j \in Jobs |-> {}]
  /\ dirs = {} /\ marked = {} /\ done = {} /\ crossed = {} /\ locked = {}
  /\ out = [j \in Jobs |-> {}] /\ lib = [j \in Jobs |-> {}]
  /\ pc = [r \in Runs |-> "idle"] /\ todo = [r \in Runs |-> {}]
  /\ job = [r \in Runs |-> NoJob] /\ listed = [r \in Runs |-> {}]

\* A run in its transfer: transfer() sends whatever is in video_output.
Shipping(r) == pc[r] = "loop" /\ todo[r] = {}

\* The jobs that two runs are at: both have it in hand, or one has and the other
\* may be sending its video, or both may.
Meeting ==
  {j \in Jobs : \E r, s \in Runs :
     /\ r # s
     /\ job[r] = j \/ (Shipping(r) /\ out[j] # {})
     /\ job[s] = j \/ Shipping(s)}

\* The jobs in hand that their midnight or a late frame comes to.
Overtaken ==
  {j \in Jobs : /\ \E r \in Runs : job[r] = j
                /\ \/ j[2] = today /\ today' # today
                   \/ j[2] < today /\ captured'[j] # captured[j]}

Crossing == crossed' = crossed \cup Meeting' \cup Overtaken

\* A frame is written, and its directory made if need be.
File(j, made) ==
  /\ \E f \in Frames \ captured[j] :
       /\ captured' = [captured EXCEPT ![j] = @ \cup {f}]
       /\ disk' = [disk EXCEPT ![j] = @ \cup {f}]
  /\ dirs' = dirs \cup made
  /\ UNCHANGED <<today, marked, out, lib, runs, crashes, done>> /\ Crossing

\* The daemon writes a frame of today,
Capture(c) == File(<<c, today>>, {<<c, today>>})

\* or one of yesterday: a fetch that midnight came into, an ffmpeg whose -t runs
\* past it.  Neither makes the directory again.
CaptureLate(c) ==
  /\ LateFrames /\ <<c, today - 1>> \in dirs
  /\ File(<<c, today - 1>>, {})

Midnight ==
  /\ today < MaxDay /\ today' = today + 1
  /\ UNCHANGED <<captured, store, out, lib, runs, crashes, done>> /\ Crossing

-------------------------------------------------------------------------------
(* A run.                                                                  *)

\* take_lock: an OS lock, gone with the process that held it; "held" ends the
\* run, and "unavailable" is a warning and no lock.
TakeLock(r) ==
  \/ locked = {} /\ locked' = {r}
  \/ LockMayFail /\ UNCHANGED locked

\* The MaxBacklog newest dates of a set of jobs.
Newest(jobs) ==
  LET dates == {j[2] : j \in jobs}
  IN  {j \in jobs : \/ MaxBacklog = 0
                    \/ Cardinality({d \in dates : d > j[2]}) < MaxBacklog}

\* A slip: the cap counted before the finished days are dropped.
PendingCapFirst(date, force) ==
  IF date # NoDate THEN {j \in dirs : j[2] = date}
  ELSE {j \in Newest({k \in dirs : k[2] < today}) : force \/ j \notin marked}

\* find_pending: the day somebody named, whatever its marker says, or the
\* newest of the finished days that still need encoding.
Pending(date, force) ==
  IF date # NoDate THEN {j \in dirs : j[2] = date}
  ELSE Newest({j \in dirs : j[2] < today /\ (force \/ j \notin marked)})

\* A slip: a run that finds nothing to do returns before the transfer.
BeginWithWork(r, date, force) ==
  /\ pc[r] = "idle" /\ TakeLock(r) /\ Pending(date, force) # {}
  /\ pc' = [pc EXCEPT ![r] = "loop"]
  /\ todo' = [todo EXCEPT ![r] = Pending(date, force)]
  /\ UNCHANGED <<today, captured, store, out, lib, job, listed, crashes, done>>
  /\ Crossing

\* A run takes the lock, or goes without, and looks for work.
Begin(r, date, force) ==
  /\ pc[r] = "idle" /\ TakeLock(r)
  /\ pc' = [pc EXCEPT ![r] = "loop"]
  /\ todo' = [todo EXCEPT ![r] = Pending(date, force)]
  /\ UNCHANGED <<today, captured, store, out, lib, job, listed, crashes, done>>
  /\ Crossing

\* valid_frames of the next job, oldest first; a day with too few is skipped
\* and stays as it is.
Take(r) ==
  /\ pc[r] = "loop"
  /\ \E j \in todo[r] :
       /\ \A k \in todo[r] : j[2] <= k[2]
       /\ todo' = [todo EXCEPT ![r] = @ \ {j}]
       /\ IF Cardinality(disk[j]) < MinFrames
          THEN UNCHANGED <<pc, job, listed>>
          ELSE /\ pc' = [pc EXCEPT ![r] = "encoding"]
               /\ job' = [job EXCEPT ![r] = j]
               /\ listed' = [listed EXCEPT ![r] = disk[j]]
  /\ UNCHANGED <<today, captured, store, out, lib, locked, crashes, done>>
  /\ Crossing

\* The loop goes on to the next job.
BackToLoop(r) ==
  /\ pc' = [pc EXCEPT ![r] = "loop"] /\ job' = [job EXCEPT ![r] = NoJob]
  /\ listed' = [listed EXCEPT ![r] = {}]
  /\ UNCHANGED <<locked, todo>>

\* ffmpeg fails or is stopped by encode_timeout: the .part goes, the frames stay.
EncodeFails(r) ==
  /\ pc[r] = "encoding"
  /\ BackToLoop(r)
  /\ UNCHANGED <<today, captured, store, out, lib, crashes, done>> /\ Crossing

\* What ffmpeg may have made of the list: less of it when frames went meanwhile,
\* and anything at all when another run has written the same .part.
Results(r) ==
  (IF listed[r] \subseteq disk[job[r]] THEN {listed[r]}
                                       ELSE (SUBSET listed[r]) \ {{}})
    \cup {{Garbage} : s \in {s \in Runs \ {r} : job[s] = job[r]}}

\* A slip: a video that is there is left as it is.
EncodeOnce(r) ==
  /\ pc[r] = "encoding"
  /\ out' = [out EXCEPT ![job[r]] = IF @ = {} THEN listed[r] ELSE @]
  /\ pc' = [pc EXCEPT ![r] = "encoded"] /\ listed' = [listed EXCEPT ![r] = {}]
  /\ UNCHANGED <<today, captured, store, lib, locked, todo, job, crashes, done>>
  /\ Crossing

\* ffmpeg is done: the .part takes the place of an older video, and the list goes.
EncodeDone(r) ==
  /\ pc[r] = "encoding"
  /\ \E video \in Results(r) : out' = [out EXCEPT ![job[r]] = video]
  /\ pc' = [pc EXCEPT ![r] = "encoded"] /\ listed' = [listed EXCEPT ![r] = {}]
  /\ UNCHANGED <<today, captured, store, lib, locked, todo, job, crashes, done>>
  /\ Crossing

StillCapturing(j) == j[2] >= today

\* mark_encoded, but for a day that is still being captured.
Mark(r) ==
  /\ pc[r] = "encoded"
  /\ pc' = [pc EXCEPT ![r] = "marked"]
  /\ \/ /\ ~StillCapturing(job[r]) /\ job[r] \in dirs
        /\ marked' = marked \cup {job[r]} /\ done' = done \cup {job[r]}
     \/ /\ StillCapturing(job[r]) \/ job[r] \notin dirs \/ MarkerMayFail
        /\ UNCHANGED <<marked, done>>
  /\ UNCHANGED <<today, captured, disk, dirs, out, lib, locked, todo, job, listed,
                 crashes>>
  /\ Crossing

\* --keep-frames, delete_frames_on_success false, or a day still captured.
KeepFrames(r) ==
  /\ pc[r] = "marked"
  /\ BackToLoop(r)
  /\ UNCHANGED <<today, captured, store, out, lib, crashes, done>> /\ Crossing

\* A slip: the frames of today deleted with the rest.
DeleteAnyDay(r) ==
  /\ pc[r] = "marked"
  /\ BackToLoop(r)
  /\ disk' = [disk EXCEPT ![job[r]] = {}]
  /\ dirs' = dirs \ {job[r]} /\ marked' = marked \ {job[r]}
  /\ UNCHANGED <<today, captured, out, lib, crashes, done>> /\ Crossing

\* rmtree with ignore_errors: everything in the directory, or any part of it, of
\* entries that cannot be removed or when the run is killed meanwhile; where
\* something else writes there, the directory may stay.
Delete(r) ==
  /\ pc[r] = "marked" /\ ~StillCapturing(job[r])
  /\ BackToLoop(r)
  /\ \/ /\ disk' = [disk EXCEPT ![job[r]] = {}]
        /\ dirs' = dirs \ {job[r]} /\ marked' = marked \ {job[r]}
     \/ /\ DeletionMayStop
        /\ \E left \in SUBSET disk[job[r]] : disk' = [disk EXCEPT ![job[r]] = left]
        /\ marked' \in {marked, marked \ {job[r]}}
        /\ UNCHANGED dirs
     \/ /\ job[r] \in crossed
        /\ disk' = [disk EXCEPT ![job[r]] = {}]
        /\ marked' \in {marked, marked \ {job[r]}}
        /\ UNCHANGED dirs
  /\ UNCHANGED <<today, captured, out, lib, crashes, done>> /\ Crossing

\* transfer, once the jobs are done or there were none.  A video arrives, in
\* place of an older one, and only then goes from video_output, if it goes; with
\* another run about, what goes may be newer than what arrived before.
Ship(r, j) ==
  /\ Shipping(r) /\ out[j] # {}
  /\ \/ lib' = [lib EXCEPT ![j] = out[j]]
     \/ j \in crossed /\ UNCHANGED lib
  /\ out' \in {out, [out EXCEPT ![j] = {}]}
  /\ UNCHANGED <<today, captured, store, runs, crashes, done>> /\ Crossing

\* rsync fails, or is stopped by transfer_timeout: with --partial what has come
\* across stays under the video's name, in place of an older one, and the local
\* copy stays for the next run.
ShipInterrupted(r, j) ==
  /\ Shipping(r) /\ out[j] # {}
  /\ \E part \in SUBSET out[j] : lib' = [lib EXCEPT ![j] = part]
  /\ UNCHANGED <<today, captured, store, out, runs, crashes, done>> /\ Crossing

\* The run ends, whatever the transfer did.
End(r) ==
  /\ Shipping(r)
  /\ pc' = [pc EXCEPT ![r] = "idle"] /\ locked' = locked \ {r}
  /\ UNCHANGED <<today, captured, store, out, lib, todo, job, listed, crashes,
                 done>>
  /\ Crossing

\* The process is killed, or a critical failure ends it.
Crash(r) ==
  /\ pc[r] # "idle" /\ crashes < MaxCrashes
  /\ crashes' = crashes + 1 /\ locked' = locked \ {r}
  /\ pc' = [pc EXCEPT ![r] = "idle"] /\ todo' = [todo EXCEPT ![r] = {}]
  /\ job' = [job EXCEPT ![r] = NoJob] /\ listed' = [listed EXCEPT ![r] = {}]
  /\ UNCHANGED <<today, captured, store, out, lib, done>> /\ Crossing

Nightly(r) == Begin(r, NoDate, FALSE)
Manual(r)  == \E date \in ByHand, force \in BOOLEAN : Begin(r, date, force)
ShipAny(r) == \E j \in Jobs : Ship(r, j) \/ ShipInterrupted(r, j)

Next ==
  \/ Midnight
  \/ \E c \in Cameras : Capture(c) \/ CaptureLate(c)
  \/ \E r \in Runs :
       \/ Nightly(r) \/ Manual(r) \/ Take(r)
       \/ EncodeFails(r) \/ EncodeDone(r) \/ Mark(r)
       \/ KeepFrames(r) \/ Delete(r)
       \/ ShipAny(r) \/ End(r) \/ Crash(r)

Spec == Init /\ [][Next]_vars

\* The timer comes round each night, and in some of the nights it meets no run
\* by hand; a run goes on; no day fails for ever and no video stays for ever.
Fairness ==
  /\ SF_vars(\E r \in Runs : Nightly(r))
  /\ \A r \in Runs :
       /\ WF_vars(Take(r)) /\ WF_vars(Mark(r))
       /\ WF_vars(KeepFrames(r) \/ Delete(r)) /\ WF_vars(End(r))
       /\ WF_vars(EncodeFails(r) \/ EncodeDone(r))
       /\ \A j \in Jobs : /\ SF_vars(job[r] = j /\ EncodeDone(r))
                          /\ SF_vars(Ship(r, j))

FairSpec == Spec /\ Fairness

-------------------------------------------------------------------------------
(* Properties.                                                             *)

Video == SUBSET (Frames \cup {Garbage})

\* The type invariant: a marker in a directory only, frames in one only, a job
\* in hand exactly while it is worked on, and the lock with one that runs.
TypeOK ==
  /\ today \in Days /\ crashes \in 0..MaxCrashes
  /\ captured \in [Jobs -> SUBSET Frames] /\ disk \in [Jobs -> SUBSET Frames]
  /\ dirs \subseteq Jobs /\ marked \subseteq dirs
  /\ done \subseteq Jobs /\ crossed \subseteq Jobs
  /\ out \in [Jobs -> Video] /\ lib \in [Jobs -> Video]
  /\ locked \subseteq {r \in Runs : pc[r] # "idle"}
  /\ pc \in [Runs -> {"idle", "loop", "encoding", "encoded", "marked"}]
  /\ todo \in [Runs -> SUBSET Jobs]
  /\ job \in [Runs -> Jobs \cup {NoJob}] /\ listed \in [Runs -> SUBSET Frames]
  /\ \A j \in Jobs \ dirs : disk[j] = {}
  /\ \A r \in Runs : job[r] = NoJob <=> pc[r] \in {"idle", "loop"}

\* The days that nothing but one run at a time and today's capture got at.
Undisturbed == Jobs \ crossed

\* A directory that was deleted is in a video as a whole, in the newest one:
\* the one waiting for the transfer, or the library's when none is waiting.
NewestVideo(j) == IF out[j] # {} THEN out[j] ELSE lib[j]
ReleasedIsWhole ==
  \A j \in Undisturbed : disk[j] = {} => NewestVideo(j) = captured[j]

OneLock == \A r, s \in locked : r = s
MeetingsSeen == Meeting \subseteq crossed
AllOrNothing ==
  \A j \in Undisturbed : \/ disk[j] = captured[j]
                         \/ disk[j] = {} /\ j \notin dirs /\ j[2] < today
VideosAreOfFrames == \A j \in Undisturbed : out[j] \cup lib[j] \subseteq captured[j]
RunIsCurrent ==
  \A r \in Runs : job[r] \in Undisturbed =>
    /\ pc[r] = "encoding" => listed[r] # {} /\ listed[r] \subseteq disk[job[r]]
    /\ pc[r] = "encoding" /\ job[r][2] < today => listed[r] = disk[job[r]]
    /\ pc[r] \in {"encoded", "marked"} /\ job[r][2] < today =>
         out[job[r]] = captured[job[r]]

\* The frames of a day are all there or all in its newest video, as long as no
\* second run, midnight or late frame comes to the day while a run has it in
\* hand; what comes to it before or after does no harm.  The inductive form: a
\* run past its encode of a finished day has put all of it into the video.
CustodyInv ==
  /\ ReleasedIsWhole /\ OneLock /\ MeetingsSeen /\ AllOrNothing
  /\ VideosAreOfFrames /\ RunIsCurrent

\* The frames of a day that still exist, and the days that exist in a video only.
Kept     == [j \in Jobs |-> disk[j] \cup out[j] \cup lib[j]]
Released == {j \in Jobs : captured[j] # {} /\ disk[j] = {}}

\* The encoder implements FrameCustody: no frame of an undisturbed day is ever
\* lost, and a day whose frames are deleted gets no more of them.
Custody == INSTANCE FrameCustody
  WITH kept <- Kept, released <- Released, disturbed <- crossed
ImplementsCustody == Custody!Spec

\* What can disturb a day: in a setting with a lock that can be taken, without
\* late frames and runs by hand, nothing does.
NothingDisturbs == crossed = {}

\* "A day is encoded once": a nightly run takes on no undisturbed day that was
\* ever marked encoded, whatever became of its directory.
EncodedOnce ==
  [][\A r \in Runs : Nightly(r) => todo'[r] \cap done \subseteq crossed]_vars

\* Its inductive form: a marker lasts as long as its directory, and no directory
\* comes back, because only the current day gets one.
DoneInv ==
  \A j \in done : j[2] < today /\ (j \in dirs => j \in marked \cup crossed)

\* What would fill the cap for good: a day with too few frames, and one that a
\* deletion which stopped half way left without its frames or its marker.
NothingFillsTheCap ==
  \A j \in dirs : /\ disk[j] = captured[j]
                  /\ j \in done => j \in marked
                  /\ Cardinality(captured[j]) >= MinFrames

\* No finished day is stranded: each is encoded in the end, however the cap on
\* the backlog cuts the runs up, while nothing fills that cap.
EveryDayEncoded ==
  []NothingFillsTheCap
    => \A j \in Jobs :
         j \in dirs /\ j[2] < today ~> NewestVideo(j) = captured[j] \/ j \in crossed

\* A video reaches the library, also when no later night produces another.
EveryVideoShipped ==
  \A j \in Jobs : out[j] # {} ~> out[j] = {} \/ lib[j] = out[j]
===============================================================================
