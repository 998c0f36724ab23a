---------------------------- MODULE EncodeRunProofs ----------------------------
(***************************************************************************)
(* No captured frame of an undisturbed day is ever lost, for any number of *)
(* cameras, days, frames and runs, with the lock or without, as long as a  *)
(* deletion completes.  CustodyInv is inductive with TypeOK; under it the  *)
(* frames of such a day that still exist are exactly the captured ones, so *)
(* that every step of EncodeRun is one of FrameCustody.                    *)
(***************************************************************************)
EXTENDS EncodeRun, FiniteSetTheorems, TLAPS

\* A job is a pair, so that no job is NoJob.
LEMMA NoJobIsNoJob == NoJob \notin Jobs
  BY DEF NoJob, Jobs

Step(r) ==
  \/ Nightly(r) \/ Manual(r) \/ Take(r)
  \/ EncodeFails(r) \/ EncodeDone(r) \/ Mark(r)
  \/ KeepFrames(r) \/ Delete(r)
  \/ ShipAny(r) \/ End(r) \/ Crash(r)

\* What is observed of a step keeps its type.
LEMMA CrossedTyped == TypeOK /\ Crossing => crossed' \subseteq Jobs
  BY DEF TypeOK, Crossing, Meeting, Overtaken

LEMMA FileKeepsType ==
  ASSUME TypeOK, NEW j \in Jobs, NEW made, made = {j} \/ (made = {} /\ j \in dirs),
         File(j, made)
  PROVE  TypeOK'
<1>1. PICK f \in Frames : /\ captured' = [captured EXCEPT ![j] = @ \cup {f}]
                          /\ disk' = [disk EXCEPT ![j] = @ \cup {f}]
  BY DEF File
<1>2. captured' \in [Jobs -> SUBSET Frames] /\ disk' \in [Jobs -> SUBSET Frames]
  BY <1>1 DEF TypeOK
<1>3. \A k \in Jobs \ dirs' : disk'[k] = {}
  BY <1>1 DEF TypeOK, File
<1>4. dirs' \subseteq Jobs /\ marked' \subseteq dirs'
  BY DEF TypeOK, File
<1> QED
  BY <1>2, <1>3, <1>4, CrossedTyped DEF TypeOK, File, runs

LEMMA PendingIsOfJobs ==
  ASSUME TypeOK, NEW date, NEW force
  PROVE  Pending(date, force) \subseteq Jobs
  BY DEF Pending, Newest, TypeOK

LEMMA BeginKeepsType ==
  ASSUME TypeOK, NEW r \in Runs, NEW date, NEW force, Begin(r, date, force)
  PROVE  TypeOK'
<1>1. Pending(date, force) \in SUBSET Jobs
  BY PendingIsOfJobs
<1>2. todo' \in [Runs -> SUBSET Jobs]
  BY <1>1 DEF TypeOK, Begin
<1>3. pc' \in [Runs -> {"idle", "loop", "encoding", "encoded", "marked"}]
  BY DEF TypeOK, Begin
<1>4. \A s \in Runs : job'[s] = NoJob <=> pc'[s] \in {"idle", "loop"}
  BY DEF TypeOK, Begin
<1>5. locked' \subseteq {s \in Runs : pc'[s] # "idle"}
  BY DEF TypeOK, Begin, TakeLock
<1> QED
  BY <1>2, <1>3, <1>4, <1>5, CrossedTyped DEF TypeOK, Begin, store

LEMMA BackToLoopKeepsType ==
  ASSUME TypeOK, NEW r \in Runs, BackToLoop(r)
  PROVE  /\ pc' \in [Runs -> {"idle", "loop", "encoding", "encoded", "marked"}]
         /\ todo' \in [Runs -> SUBSET Jobs]
         /\ job' \in [Runs -> Jobs \cup {NoJob}]
         /\ listed' \in [Runs -> SUBSET Frames]
         /\ \A s \in Runs : job'[s] = NoJob <=> pc'[s] \in {"idle", "loop"}
         /\ locked' \subseteq {s \in Runs : pc'[s] # "idle"}
<1>1. pc' \in [Runs -> {"idle", "loop", "encoding", "encoded", "marked"}]
  BY DEF TypeOK, BackToLoop
<1>2. todo' \in [Runs -> SUBSET Jobs]
  BY DEF TypeOK, BackToLoop
<1>3. job' \in [Runs -> Jobs \cup {NoJob}] /\ listed' \in [Runs -> SUBSET Frames]
  BY DEF TypeOK, BackToLoop
<1>4. \A s \in Runs : job'[s] = NoJob <=> pc'[s] \in {"idle", "loop"}
  BY DEF TypeOK, BackToLoop
<1>5. locked' \subseteq {s \in Runs : pc'[s] # "idle"}
  BY DEF TypeOK, BackToLoop
<1> QED
  BY <1>1, <1>2, <1>3, <1>4, <1>5

LEMMA TypeStep == TypeOK /\ [Next]_vars => TypeOK'
<1> SUFFICES ASSUME TypeOK, [Next]_vars PROVE TypeOK'
  OBVIOUS
<1> USE CrossedTyped
<1>1. CASE Midnight
  BY <1>1, EncodeAssumption DEF TypeOK, Midnight, Days, store, runs
<1>2. ASSUME NEW c \in Cameras, Capture(c) \/ CaptureLate(c) PROVE TypeOK'
  <2>1. CASE Capture(c)
    <3>1. <<c, today>> \in Jobs
      BY DEF TypeOK, Jobs
    <3> QED
      BY <2>1, <3>1, FileKeepsType DEF Capture
  <2>2. CASE CaptureLate(c)
    <3>1. <<c, today - 1>> \in dirs /\ <<c, today - 1>> \in Jobs
      BY <2>2 DEF TypeOK, CaptureLate
    <3> QED
      BY <2>2, <3>1, FileKeepsType DEF CaptureLate
  <2> QED
    BY <1>2, <2>1, <2>2
<1>3. ASSUME NEW r \in Runs, Step(r) PROVE TypeOK'
  <2>1. CASE Nightly(r)
    BY <2>1, BeginKeepsType DEF Nightly
  <2>2. CASE Manual(r)
    BY <2>2, BeginKeepsType DEF Manual
  <2>3. CASE Take(r)
    <3>1. PICK j \in todo[r] :
            /\ todo' = [todo EXCEPT ![r] = @ \ {j}]
            /\ IF Cardinality(disk[j]) < MinFrames
               THEN UNCHANGED <<pc, job, listed>>
               ELSE /\ pc' = [pc EXCEPT ![r] = "encoding"]
                    /\ job' = [job EXCEPT ![r] = j]
                    /\ listed' = [listed EXCEPT ![r] = disk[j]]
      BY <2>3 DEF Take
    <3>2. j \in Jobs /\ todo' \in [Runs -> SUBSET Jobs]
      BY <3>1 DEF TypeOK
    <3>3. CASE Cardinality(disk[j]) < MinFrames
      BY <3>1, <3>2, <3>3, <2>3 DEF TypeOK, Take, store
    <3>4. CASE ~(Cardinality(disk[j]) < MinFrames)
      <4>1. pc' \in [Runs -> {"idle", "loop", "encoding", "encoded", "marked"}]
        BY <3>1, <3>4 DEF TypeOK
      <4>2. job' \in [Runs -> Jobs \cup {NoJob}] /\ listed' \in [Runs -> SUBSET Frames]
        BY <3>1, <3>2, <3>4 DEF TypeOK
      <4>3. \A s \in Runs : job'[s] = NoJob <=> pc'[s] \in {"idle", "loop"}
        BY <3>1, <3>2, <3>4, NoJobIsNoJob DEF TypeOK
      <4>4. locked' \subseteq {s \in Runs : pc'[s] # "idle"}
        BY <3>1, <3>4, <2>3 DEF TypeOK, Take
      <4> QED
        BY <3>2, <4>1, <4>2, <4>3, <4>4, <2>3 DEF TypeOK, Take, store
    <3> QED
      BY <3>3, <3>4
  <2>4. CASE EncodeFails(r)
    BY <2>4, BackToLoopKeepsType DEF TypeOK, EncodeFails, store
  <2>5. CASE EncodeDone(r)
    <3>1. job[r] \in Jobs /\ listed[r] \in SUBSET Frames
      BY <2>5 DEF TypeOK, EncodeDone
    <3>2. out' \in [Jobs -> Video]
      <4>1. Results(r) \subseteq Video
        BY <3>1 DEF Results, Video
      <4> QED
        BY <4>1, <2>5 DEF TypeOK, EncodeDone
    <3>3. pc' \in [Runs -> {"idle", "loop", "encoding", "encoded", "marked"}]
      BY <2>5 DEF TypeOK, EncodeDone
    <3>4. \A s \in Runs : job'[s] = NoJob <=> pc'[s] \in {"idle", "loop"}
      BY <2>5 DEF TypeOK, EncodeDone
    <3>5. listed' \in [Runs -> SUBSET Frames]
      BY <2>5 DEF TypeOK, EncodeDone
    <3>6. locked' \subseteq {s \in Runs : pc'[s] # "idle"}
      BY <2>5 DEF TypeOK, EncodeDone
    <3> QED
      BY <3>2, <3>3, <3>4, <3>5, <3>6, <2>5 DEF TypeOK, EncodeDone, store
  <2>6. CASE Mark(r)
    <3>1. marked' \subseteq dirs' /\ done' \subseteq Jobs
      BY <2>6 DEF TypeOK, Mark
    <3>2. pc' \in [Runs -> {"idle", "loop", "encoding", "encoded", "marked"}]
      BY <2>6 DEF TypeOK, Mark
    <3>3. \A s \in Runs : job'[s] = NoJob <=> pc'[s] \in {"idle", "loop"}
      BY <2>6 DEF TypeOK, Mark
    <3>4. locked' \subseteq {s \in Runs : pc'[s] # "idle"}
      BY <2>6 DEF TypeOK, Mark
    <3> QED
      BY <3>1, <3>2, <3>3, <3>4, <2>6 DEF TypeOK, Mark
  <2>7. CASE KeepFrames(r)
    BY <2>7, BackToLoopKeepsType DEF TypeOK, KeepFrames, store
  <2>8. CASE Delete(r)
    <3>1. job[r] \in Jobs /\ BackToLoop(r)
      BY <2>8 DEF TypeOK, Delete
    <3>2. disk' \in [Jobs -> SUBSET Frames]
      BY <3>1, <2>8 DEF TypeOK, Delete
    <3>3. dirs' \subseteq Jobs /\ marked' \subseteq dirs'
      BY <2>8 DEF TypeOK, Delete
    <3>4. \A j \in Jobs \ dirs' : disk'[j] = {}
      BY <3>1, <2>8 DEF TypeOK, Delete
    <3> QED
      BY <3>1, <3>2, <3>3, <3>4, <2>8, BackToLoopKeepsType DEF TypeOK, Delete
  <2>9. CASE ShipAny(r)
    <3>1. PICK j \in Jobs : Ship(r, j) \/ ShipInterrupted(r, j)
      BY <2>9 DEF ShipAny
    <3>2. lib' \in [Jobs -> Video] /\ out' \in [Jobs -> Video]
      <4>1. {} \in Video
        BY DEF Video
      <4>2. out' = out \/ out' = [out EXCEPT ![j] = {}]
        BY <3>1 DEF Ship, ShipInterrupted
      <4>3. lib' = lib \/ \E part \in SUBSET out[j] : lib' = [lib EXCEPT ![j] = part]
        BY <3>1 DEF Ship, ShipInterrupted
      <4>4. out \in [Jobs -> Video] /\ lib \in [Jobs -> Video]
        BY DEF TypeOK
      <4>5. out' \in [Jobs -> Video]
        BY <4>1, <4>2, <4>4
      <4>6. lib' \in [Jobs -> Video]
        BY <4>3, <4>4 DEF Video
      <4> QED
        BY <4>5, <4>6
    <3> QED
      BY <3>1, <3>2 DEF TypeOK, Ship, ShipInterrupted, store, runs
  <2>10. CASE End(r)
    <3>1. pc' \in [Runs -> {"idle", "loop", "encoding", "encoded", "marked"}]
      BY <2>10 DEF TypeOK, End
    <3>2. \A s \in Runs : job'[s] = NoJob <=> pc'[s] \in {"idle", "loop"}
      BY <2>10 DEF TypeOK, End, Shipping
    <3>3. locked' \subseteq {s \in Runs : pc'[s] # "idle"}
      <4>1. locked' = locked \ {r} /\ \A s \in Runs \ {r} : pc'[s] = pc[s]
        BY <2>10 DEF TypeOK, End
      <4> QED
        BY <4>1 DEF TypeOK
    <3> QED
      BY <3>1, <3>2, <3>3, <2>10 DEF TypeOK, End, store
  <2>11. CASE Crash(r)
    <3>1. pc' \in [Runs -> {"idle", "loop", "encoding", "encoded", "marked"}]
      BY <2>11 DEF TypeOK, Crash
    <3>2. \A s \in Runs : job'[s] = NoJob <=> pc'[s] \in {"idle", "loop"}
      BY <2>11 DEF TypeOK, Crash
    <3>3. /\ todo' \in [Runs -> SUBSET Jobs] /\ job' \in [Runs -> Jobs \cup {NoJob}]
          /\ listed' \in [Runs -> SUBSET Frames]
      BY <2>11 DEF TypeOK, Crash
    <3>4. crashes' \in 0..MaxCrashes
      BY <2>11, EncodeAssumption DEF TypeOK, Crash
    <3>5. locked' \subseteq {s \in Runs : pc'[s] # "idle"}
      BY <2>11 DEF TypeOK, Crash
    <3> QED
      BY <3>1, <3>2, <3>3, <3>4, <3>5, <2>11 DEF TypeOK, Crash, store
  <2> QED
    BY <1>3, <2>1, <2>2, <2>3, <2>4, <2>5, <2>6, <2>7, <2>8, <2>9, <2>10, <2>11
       DEF Step
<1>4. CASE UNCHANGED vars
  BY <1>4 DEF TypeOK, vars, store, runs
<1> QED
  BY <1>1, <1>2, <1>3, <1>4 DEF Next, Step

\* The encoder's state keeps its types.
THEOREM TypeCorrect == Spec => []TypeOK
<1>1. Init => TypeOK
  BY EncodeAssumption DEF Init, TypeOK, Days, Video
<1> QED
  BY <1>1, TypeStep, PTL DEF Spec

-------------------------------------------------------------------------------
(* Custody, one step at a time.  StoreInv is about the directories and the *)
(* videos; what is left is then about the runs.                            *)

StoreInv == ReleasedIsWhole /\ AllOrNothing /\ VideosAreOfFrames

\* Every step looks at what met and what was overtaken.
LEMMA CrossingSees ==
  ASSUME Crossing
  PROVE  crossed \subseteq crossed' /\ MeetingsSeen' /\ Overtaken \subseteq crossed'
  BY DEF Crossing, MeetingsSeen

LEMMA StoreUndisturbed ==
  ASSUME StoreInv, crossed \subseteq crossed',
         UNCHANGED <<today, captured, disk, dirs, out, lib>>
  PROVE  StoreInv'
  BY DEF StoreInv, ReleasedIsWhole, AllOrNothing, VideosAreOfFrames, NewestVideo,
         Undisturbed

\* While a run has an undisturbed job in hand, no other is at it or ships.
LEMMA OthersElsewhere ==
  ASSUME CustodyInv, NEW r \in Runs, NEW s \in Runs, r # s, job[s] \in Undisturbed
  PROVE  job[r] # job[s] /\ (out[job[s]] # {} => ~Shipping(r))
  BY DEF CustodyInv, MeetingsSeen, Meeting, Undisturbed

\* A run that is at no job has nothing to keep, and the others have what they had.
LEMMA RunGoesOn ==
  ASSUME TypeOK, CustodyInv, NEW r \in Runs, crossed \subseteq crossed',
         job'[r] = NoJob, UNCHANGED <<today, captured>>,
         \A s \in Runs \ {r} : /\ pc'[s] = pc[s] /\ job'[s] = job[s]
                               /\ listed'[s] = listed[s],
         \A s \in Runs \ {r} : job[s] \in Undisturbed =>
            disk'[job[s]] = disk[job[s]] /\ out'[job[s]] = out[job[s]]
  PROVE  RunIsCurrent'
<1> SUFFICES ASSUME NEW s \in Runs, job'[s] \in Undisturbed'
             PROVE  /\ pc'[s] = "encoding" =>
                         listed'[s] # {} /\ listed'[s] \subseteq disk'[job'[s]]
                    /\ pc'[s] = "encoding" /\ job'[s][2] < today =>
                         listed'[s] = disk'[job'[s]]
                    /\ pc'[s] \in {"encoded", "marked"} /\ job'[s][2] < today =>
                         out'[job'[s]] = captured[job'[s]]
  BY DEF RunIsCurrent
<1>1. s # r
  BY NoJobIsNoJob DEF Undisturbed
<1>2. job[s] \in Undisturbed
  BY <1>1 DEF Undisturbed
<1> QED
  BY <1>1, <1>2 DEF CustodyInv, RunIsCurrent

LEMMA FileKeepsCustody ==
  ASSUME TypeOK, CustodyInv, NEW j \in Jobs, NEW made, File(j, made),
         \/ j[2] = today /\ made = {j}
         \/ j[2] < today /\ made = {} /\ j \in dirs
  PROVE  StoreInv' /\ RunIsCurrent'
<1>1. PICK f \in Frames \ captured[j] :
        /\ captured' = [captured EXCEPT ![j] = @ \cup {f}]
        /\ disk' = [disk EXCEPT ![j] = @ \cup {f}]
  BY DEF File
<1>2. UNCHANGED <<today, out, lib, pc, job, listed>>
  BY DEF File, runs
<1>3. crossed \subseteq crossed' /\ Overtaken \subseteq crossed'
  BY CrossingSees DEF File
<1>4. today \in Int
  BY DEF TypeOK, Days
<1>5. j \in Undisturbed => disk[j] = captured[j]
  BY <1>4 DEF CustodyInv, AllOrNothing
<1>6. /\ \A k \in Jobs : k # j => disk'[k] = disk[k] /\ captured'[k] = captured[k]
      /\ disk'[j] = disk[j] \cup {f} /\ captured'[j] = captured[j] \cup {f}
      /\ \A k \in Jobs : k # j => (k \in dirs' <=> k \in dirs)
  BY <1>1 DEF TypeOK, File
<1>7. Undisturbed' \subseteq Undisturbed
  BY <1>3 DEF Undisturbed
<1>8. ReleasedIsWhole'
  BY <1>2, <1>6, <1>7 DEF CustodyInv, ReleasedIsWhole, NewestVideo, Undisturbed
<1>9. AllOrNothing'
  BY <1>2, <1>5, <1>6, <1>7 DEF CustodyInv, AllOrNothing, Undisturbed
<1>10. VideosAreOfFrames'
  BY <1>2, <1>6, <1>7 DEF CustodyInv, VideosAreOfFrames, Undisturbed
<1>11. RunIsCurrent'
  <2> SUFFICES ASSUME NEW r \in Runs, job[r] \in Undisturbed'
               PROVE  /\ pc[r] = "encoding" => listed[r] # {} /\ listed[r] \subseteq disk'[job[r]]
                      /\ pc[r] = "encoding" /\ job[r][2] < today => listed[r] = disk'[job[r]]
                      /\ pc[r] \in {"encoded", "marked"} /\ job[r][2] < today =>
                           out[job[r]] = captured'[job[r]]
    BY <1>2 DEF RunIsCurrent
  <2>1. job[r] \in Undisturbed /\ job[r] \in Jobs
    BY <1>7 DEF Undisturbed
  <2>2. job[r] = j => ~(j[2] < today)
    <3>1. captured'[j] # captured[j]
      BY <1>1, <1>6
    <3> QED
      BY <1>3, <3>1 DEF Overtaken, Undisturbed
  <2> QED
    BY <1>6, <2>1, <2>2 DEF CustodyInv, RunIsCurrent
<1> QED
  BY <1>8, <1>9, <1>10, <1>11 DEF StoreInv

LEMMA MidnightKeepsCustody ==
  ASSUME TypeOK, CustodyInv, Midnight
  PROVE  StoreInv' /\ RunIsCurrent'
<1>1. /\ UNCHANGED <<captured, disk, dirs, out, lib, pc, job, listed>>
      /\ today' = today + 1
  BY DEF Midnight, store, runs
<1>2. today \in Int /\ \A j \in Jobs : j[2] \in Int
  BY DEF TypeOK, Jobs, Days
<1>3. crossed \subseteq crossed' /\ Overtaken \subseteq crossed'
  BY CrossingSees DEF Midnight
<1>4. Undisturbed' \subseteq Undisturbed
  BY <1>3 DEF Undisturbed
<1>5. AllOrNothing'
  <2> SUFFICES ASSUME NEW j \in Undisturbed'
               PROVE  \/ disk[j] = captured[j]
                      \/ disk[j] = {} /\ j \notin dirs /\ j[2] < today + 1
    BY <1>1 DEF AllOrNothing
  <2>1. j \in Undisturbed /\ j[2] \in Int
    BY <1>2, <1>4 DEF Undisturbed
  <2> QED
    BY <1>2, <2>1 DEF CustodyInv, AllOrNothing
<1>6. RunIsCurrent'
  <2> SUFFICES ASSUME NEW r \in Runs, job[r] \in Undisturbed'
               PROVE  /\ pc[r] = "encoding" => listed[r] # {} /\ listed[r] \subseteq disk[job[r]]
                      /\ pc[r] = "encoding" /\ job[r][2] < today + 1 => listed[r] = disk[job[r]]
                      /\ pc[r] \in {"encoded", "marked"} /\ job[r][2] < today + 1 =>
                           out[job[r]] = captured[job[r]]
    BY <1>1 DEF RunIsCurrent
  <2>1. job[r] \in Undisturbed /\ job[r] \in Jobs
    BY <1>4 DEF Undisturbed
  <2>2. job[r][2] # today
    BY <1>1, <1>2, <1>3, <2>1 DEF Overtaken, Undisturbed
  <2>3. job[r][2] < today + 1 => job[r][2] < today
    BY <1>2, <2>1, <2>2
  <2> QED
    BY <2>1, <2>3 DEF CustodyInv, RunIsCurrent
<1>7. ReleasedIsWhole' /\ VideosAreOfFrames'
  BY <1>1, <1>4
     DEF CustodyInv, ReleasedIsWhole, NewestVideo, VideosAreOfFrames
<1> QED
  BY <1>5, <1>6, <1>7 DEF StoreInv

LEMMA TakeKeepsCustody ==
  ASSUME TypeOK, CustodyInv, NEW r \in Runs, Take(r)
  PROVE  StoreInv' /\ RunIsCurrent'
<1>1. PICK j \in todo[r] :
        IF Cardinality(disk[j]) < MinFrames
        THEN UNCHANGED <<pc, job, listed>>
        ELSE /\ pc' = [pc EXCEPT ![r] = "encoding"]
             /\ job' = [job EXCEPT ![r] = j]
             /\ listed' = [listed EXCEPT ![r] = disk[j]]
  BY DEF Take
<1>2. UNCHANGED <<today, captured, disk, dirs, out, lib>>
  BY DEF Take, store
<1>3. crossed \subseteq crossed'
  BY CrossingSees DEF Take
<1>4. StoreInv'
  BY <1>2, <1>3, StoreUndisturbed DEF CustodyInv, StoreInv
<1>5. Undisturbed' \subseteq Undisturbed
  BY <1>3 DEF Undisturbed
<1>6. CASE Cardinality(disk[j]) < MinFrames
  BY <1>1, <1>2, <1>4, <1>5, <1>6 DEF CustodyInv, RunIsCurrent
<1>7. CASE ~(Cardinality(disk[j]) < MinFrames)
  <2>1. \A s \in Runs \ {r} : /\ pc'[s] = pc[s] /\ job'[s] = job[s]
                              /\ listed'[s] = listed[s]
    BY <1>1, <1>7 DEF TypeOK
  <2>2. pc'[r] = "encoding" /\ job'[r] = j /\ listed'[r] = disk[j]
    BY <1>1, <1>7 DEF TypeOK
  <2>3. disk[j] # {}
    BY <1>7, FS_EmptySet, EncodeAssumption
  <2>4. RunIsCurrent'
    BY <1>2, <1>5, <2>1, <2>2, <2>3 DEF CustodyInv, RunIsCurrent
  <2> QED
    BY <1>4, <2>4
<1> QED
  BY <1>6, <1>7

LEMMA EncodeDoneKeepsCustody ==
  ASSUME TypeOK, CustodyInv, NEW r \in Runs, EncodeDone(r)
  PROVE  StoreInv' /\ RunIsCurrent'
<1>1. PICK video \in Results(r) : out' = [out EXCEPT ![job[r]] = video]
  BY DEF EncodeDone
<1>2. job[r] \in Jobs
  BY DEF EncodeDone, TypeOK
<1>3. /\ out'[job[r]] = video
      /\ \A j \in Jobs : j # job[r] => out'[j] = out[j]
  BY <1>1, <1>2 DEF TypeOK
<1>4. UNCHANGED <<today, captured, disk, dirs, lib, job>>
  BY DEF EncodeDone, store
<1>5. crossed \subseteq crossed'
  BY CrossingSees DEF EncodeDone
<1>6. Undisturbed' \subseteq Undisturbed
  BY <1>5 DEF Undisturbed
<1>7. ASSUME job[r] \in Undisturbed
      PROVE  /\ video = listed[r] /\ video # {} /\ disk[job[r]] = captured[job[r]]
             /\ video \subseteq disk[job[r]]
             /\ job[r][2] < today => video = captured[job[r]]
  <2>1. listed[r] # {} /\ listed[r] \subseteq disk[job[r]]
    BY <1>7 DEF EncodeDone, CustodyInv, RunIsCurrent
  <2>2. \A s \in Runs \ {r} : job[s] # job[r]
    BY <1>7, OthersElsewhere
  <2>3. video = listed[r]
    BY <2>1, <2>2 DEF Results
  <2>4. disk[job[r]] = captured[job[r]]
    BY <1>7, <2>1 DEF CustodyInv, AllOrNothing
  <2>5. job[r][2] < today => listed[r] = disk[job[r]]
    BY <1>7 DEF EncodeDone, CustodyInv, RunIsCurrent
  <2> QED
    BY <2>1, <2>3, <2>4, <2>5
<1>8. ReleasedIsWhole'
  BY <1>3, <1>4, <1>6, <1>7
     DEF CustodyInv, ReleasedIsWhole, NewestVideo, Undisturbed
<1>9. AllOrNothing' /\ VideosAreOfFrames'
  BY <1>3, <1>4, <1>6, <1>7
     DEF CustodyInv, AllOrNothing, VideosAreOfFrames, Undisturbed
<1>10. /\ pc'[r] = "encoded"
       /\ \A s \in Runs \ {r} : pc'[s] = pc[s] /\ listed'[s] = listed[s]
  BY DEF EncodeDone, TypeOK
<1>11. RunIsCurrent'
  <2> SUFFICES ASSUME NEW s \in Runs, job[s] \in Undisturbed'
               PROVE  /\ pc'[s] = "encoding" =>
                           listed'[s] # {} /\ listed'[s] \subseteq disk[job[s]]
                      /\ pc'[s] = "encoding" /\ job[s][2] < today =>
                           listed'[s] = disk[job[s]]
                      /\ pc'[s] \in {"encoded", "marked"} /\ job[s][2] < today =>
                           out'[job[s]] = captured[job[s]]
    BY <1>4 DEF RunIsCurrent
  <2>1. job[s] \in Undisturbed /\ job[s] \in Jobs
    BY <1>6 DEF Undisturbed
  <2>2. CASE s = r
    BY <1>3, <1>7, <1>10, <2>1, <2>2
  <2>3. CASE s # r
    <3>1. job[s] # job[r]
      BY <2>1, <2>3, OthersElsewhere
    <3> QED
      BY <1>3, <1>10, <2>1, <2>3, <3>1 DEF CustodyInv, RunIsCurrent
  <2> QED
    BY <2>2, <2>3
<1> QED
  BY <1>8, <1>9, <1>11 DEF StoreInv

LEMMA MarkKeepsCustody ==
  ASSUME TypeOK, CustodyInv, NEW r \in Runs, Mark(r)
  PROVE  StoreInv' /\ RunIsCurrent'
<1>1. UNCHANGED <<today, captured, disk, dirs, out, lib, job, listed>>
  BY DEF Mark
<1>2. pc[r] = "encoded" /\ pc'[r] = "marked" /\ \A s \in Runs \ {r} : pc'[s] = pc[s]
  BY DEF Mark, TypeOK
<1>3. crossed \subseteq crossed'
  BY CrossingSees DEF Mark
<1>4. StoreInv'
  BY <1>1, <1>3, StoreUndisturbed DEF CustodyInv, StoreInv
<1>5. Undisturbed' \subseteq Undisturbed
  BY <1>3 DEF Undisturbed
<1>6. RunIsCurrent'
  BY <1>1, <1>2, <1>5 DEF CustodyInv, RunIsCurrent
<1> QED
  BY <1>4, <1>6

LEMMA DeleteKeepsCustody ==
  ASSUME ~DeletionMayStop, TypeOK, CustodyInv, NEW r \in Runs, Delete(r)
  PROVE  StoreInv' /\ RunIsCurrent'
<1>1. /\ pc[r] = "marked" /\ job[r] \in Jobs /\ ~StillCapturing(job[r])
      /\ disk' = [disk EXCEPT ![job[r]] = {}]
      /\ UNCHANGED <<today, captured, out, lib>>
      /\ dirs' \subseteq dirs /\ dirs \ {job[r]} \subseteq dirs'
      /\ job[r] \in crossed \/ job[r] \notin dirs'
  BY DEF Delete, TypeOK
<1>2. job[r][2] < today
  BY <1>1 DEF StillCapturing, TypeOK, Jobs, Days
<1>3. job[r] \in Undisturbed => out[job[r]] = captured[job[r]]
  BY <1>1, <1>2 DEF CustodyInv, RunIsCurrent
<1>4. /\ disk'[job[r]] = {}
      /\ \A j \in Jobs : j # job[r] => disk'[j] = disk[j]
  BY <1>1 DEF TypeOK
<1>5. crossed \subseteq crossed'
  BY CrossingSees DEF Delete
<1>6. Undisturbed' \subseteq Undisturbed
  BY <1>5 DEF Undisturbed
<1>7. ReleasedIsWhole'
  <2> SUFFICES ASSUME NEW j \in Undisturbed', disk'[j] = {}
               PROVE  NewestVideo(j) = captured[j]
    BY <1>1 DEF ReleasedIsWhole, NewestVideo
  <2>1. j \in Undisturbed /\ j \in Jobs
    BY <1>6 DEF Undisturbed
  <2>2. CASE j = job[r]
    BY <1>3, <2>1, <2>2 DEF NewestVideo, CustodyInv, VideosAreOfFrames
  <2>3. CASE j # job[r]
    BY <1>4, <2>1, <2>3 DEF CustodyInv, ReleasedIsWhole
  <2> QED
    BY <2>2, <2>3
<1>8. AllOrNothing'
  BY <1>1, <1>2, <1>4, <1>6 DEF CustodyInv, AllOrNothing, Undisturbed
<1>9. VideosAreOfFrames'
  BY <1>1, <1>6 DEF CustodyInv, VideosAreOfFrames
<1>10. /\ job'[r] = NoJob
       /\ \A s \in Runs \ {r} : /\ pc'[s] = pc[s] /\ job'[s] = job[s]
                                /\ listed'[s] = listed[s]
  BY DEF Delete, BackToLoop, TypeOK
<1>11. \A s \in Runs \ {r} : job[s] \in Undisturbed => disk'[job[s]] = disk[job[s]]
  <2> SUFFICES ASSUME NEW s \in Runs \ {r}, job[s] \in Undisturbed
               PROVE  disk'[job[s]] = disk[job[s]]
    OBVIOUS
  <2>1. job[s] # job[r] /\ job[s] \in Jobs
    BY OthersElsewhere DEF Undisturbed
  <2> QED
    BY <1>4, <2>1
<1>12. RunIsCurrent'
  BY <1>1, <1>5, <1>10, <1>11, RunGoesOn
<1> QED
  BY <1>7, <1>8, <1>9, <1>12 DEF StoreInv

\* Whether the video arrives or a part of it: while there is a local copy it is
\* the newest video, and it goes only once its like is in the library.
LEMMA ShipKeepsCustody ==
  ASSUME TypeOK, CustodyInv, NEW r \in Runs, NEW j \in Jobs,
         Ship(r, j) \/ ShipInterrupted(r, j)
  PROVE  StoreInv' /\ RunIsCurrent'
<1>1. /\ UNCHANGED <<today, captured, disk, dirs, pc, job, listed>>
      /\ Shipping(r) /\ pc[r] = "loop" /\ out[j] # {}
  BY DEF Ship, ShipInterrupted, store, runs, Shipping
<1>2. crossed \subseteq crossed'
  BY CrossingSees DEF Ship, ShipInterrupted
<1>3. Undisturbed' \subseteq Undisturbed
  BY <1>2 DEF Undisturbed
<1>4. \A k \in Jobs : k # j => lib'[k] = lib[k] /\ out'[k] = out[k]
  <2>1. out' = out \/ out' = [out EXCEPT ![j] = {}]
    BY DEF Ship, ShipInterrupted
  <2>2. lib' = lib \/ \E video \in SUBSET out[j] : lib' = [lib EXCEPT ![j] = video]
    BY DEF Ship, ShipInterrupted
  <2> QED
    BY <2>1, <2>2 DEF TypeOK
<1>5. ASSUME j \in Undisturbed
      PROVE  /\ lib'[j] \subseteq out[j]
             /\ out'[j] = out[j] \/ (out'[j] = {} /\ lib'[j] = out[j])
  <2>1. CASE Ship(r, j)
    <3>1. lib' = [lib EXCEPT ![j] = out[j]]
      BY <1>5, <2>1 DEF Ship, Undisturbed
    <3>2. out' = out \/ out' = [out EXCEPT ![j] = {}]
      BY <2>1 DEF Ship
    <3> QED
      BY <3>1, <3>2 DEF TypeOK
  <2>2. CASE ShipInterrupted(r, j)
    BY <2>2 DEF ShipInterrupted, TypeOK
  <2> QED
    BY <2>1, <2>2
<1>6. ReleasedIsWhole'
  BY <1>1, <1>3, <1>4, <1>5 DEF CustodyInv, ReleasedIsWhole, NewestVideo, Undisturbed
<1>7. AllOrNothing' /\ VideosAreOfFrames'
  BY <1>1, <1>3, <1>4, <1>5
     DEF CustodyInv, AllOrNothing, VideosAreOfFrames, Undisturbed
<1>8. RunIsCurrent'
  <2>1. job'[r] = NoJob
    BY <1>1 DEF TypeOK
  <2>2. \A s \in Runs \ {r} : job[s] \in Undisturbed => job[s] \in Jobs /\ job[s] # j
    BY <1>1, OthersElsewhere DEF Undisturbed
  <2>3. \A s \in Runs \ {r} : job[s] \in Undisturbed =>
          disk'[job[s]] = disk[job[s]] /\ out'[job[s]] = out[job[s]]
    BY <1>1, <1>4, <2>2
  <2> QED
    BY <1>1, <1>2, <2>1, <2>3, RunGoesOn
<1> QED
  BY <1>6, <1>7, <1>8 DEF StoreInv

\* Begin, EncodeFails, KeepFrames, End and Crash: the run is at no job, and the
\* directories and videos stay.
LEMMA BesidesKeepsCustody ==
  ASSUME TypeOK, CustodyInv, NEW r \in Runs,
         \/ Nightly(r) \/ Manual(r)
         \/ EncodeFails(r) \/ KeepFrames(r) \/ End(r) \/ Crash(r)
  PROVE  StoreInv' /\ RunIsCurrent'
<1>1. UNCHANGED <<today, captured, disk, dirs, out, lib>> /\ Crossing
  BY DEF Nightly, Manual, Begin, EncodeFails, KeepFrames, End, Crash, store
<1>2. /\ job'[r] = NoJob
      /\ \A s \in Runs \ {r} : /\ pc'[s] = pc[s] /\ job'[s] = job[s]
                               /\ listed'[s] = listed[s]
  BY DEF Nightly, Manual, Begin, EncodeFails, KeepFrames, End, Shipping, Crash,
         BackToLoop, TypeOK
<1>3. crossed \subseteq crossed'
  BY <1>1, CrossingSees
<1>4. StoreInv'
  BY <1>1, <1>3, StoreUndisturbed DEF CustodyInv, StoreInv
<1>5. RunIsCurrent'
  BY <1>1, <1>2, <1>3, RunGoesOn
<1> QED
  BY <1>4, <1>5

LEMMA LockStep ==
  ASSUME OneLock, Next
  PROVE  OneLock' /\ Crossing
<1>1. locked' \subseteq locked \/ \E r \in Runs : locked' = {r}
  BY DEF Next, Midnight, Capture, CaptureLate, File, Nightly, Manual, Begin, TakeLock,
         Take, EncodeFails, EncodeDone, Mark, KeepFrames, Delete, BackToLoop, ShipAny,
         Ship, ShipInterrupted, End, Crash, runs
<1>2. Crossing
  BY DEF Next, Midnight, Capture, CaptureLate, File, Nightly, Manual, Begin,
         Take, EncodeFails, EncodeDone, Mark, KeepFrames, Delete, ShipAny,
         Ship, ShipInterrupted, End, Crash
<1> QED
  BY <1>1, <1>2 DEF OneLock

LEMMA CustodyStep ==
  ASSUME ~DeletionMayStop
  PROVE  TypeOK /\ CustodyInv /\ [Next]_vars => CustodyInv'
<1> SUFFICES ASSUME TypeOK, CustodyInv, [Next]_vars PROVE CustodyInv'
  OBVIOUS
<1>1. ASSUME Midnight PROVE StoreInv' /\ RunIsCurrent'
  BY <1>1, MidnightKeepsCustody
<1>2. ASSUME NEW c \in Cameras, Capture(c) \/ CaptureLate(c)
      PROVE  StoreInv' /\ RunIsCurrent'
  <2>1. CASE Capture(c)
    <3>1. <<c, today>> \in Jobs /\ <<c, today>>[2] = today
      BY DEF TypeOK, Jobs
    <3>2. File(<<c, today>>, {<<c, today>>})
      BY <2>1 DEF Capture
    <3> QED
      BY <3>1, <3>2, FileKeepsCustody
  <2>2. CASE CaptureLate(c)
    <3>1. <<c, today - 1>> \in Jobs /\ <<c, today - 1>> \in dirs
      BY <2>2 DEF TypeOK, CaptureLate
    <3>2. <<c, today - 1>>[2] < today
      BY DEF TypeOK, Days
    <3> QED
      BY <2>2, <3>1, <3>2, FileKeepsCustody DEF CaptureLate
  <2> QED
    BY <1>2, <2>1, <2>2
<1>3. ASSUME NEW r \in Runs, Step(r) PROVE StoreInv' /\ RunIsCurrent'
  <2>1. CASE Take(r)
    BY <2>1, TakeKeepsCustody
  <2>2. CASE EncodeDone(r)
    BY <2>2, EncodeDoneKeepsCustody
  <2>3. CASE Mark(r)
    BY <2>3, MarkKeepsCustody
  <2>4. CASE Delete(r)
    BY <2>4, DeleteKeepsCustody
  <2>5. CASE ShipAny(r)
    BY <2>5, ShipKeepsCustody DEF ShipAny
  <2>6. CASE \/ Nightly(r) \/ Manual(r)
             \/ EncodeFails(r) \/ KeepFrames(r) \/ End(r) \/ Crash(r)
    BY <2>6, BesidesKeepsCustody
  <2> QED
    BY <1>3, <2>1, <2>2, <2>3, <2>4, <2>5, <2>6 DEF Step
<1>4. CASE Next
  <2>1. StoreInv' /\ RunIsCurrent'
    BY <1>1, <1>2, <1>3, <1>4 DEF Next, Step
  <2>2. OneLock' /\ MeetingsSeen'
    BY <1>4, LockStep, CrossingSees DEF CustodyInv
  <2> QED
    BY <2>1, <2>2 DEF CustodyInv, StoreInv
<1>5. CASE UNCHANGED vars
  <2>1. StoreInv'
    BY <1>5, StoreUndisturbed DEF vars, store, CustodyInv, StoreInv
  <2>2. OneLock' /\ MeetingsSeen' /\ RunIsCurrent'
    BY <1>5 DEF vars, store, runs, CustodyInv, OneLock, MeetingsSeen, Meeting,
                Shipping, RunIsCurrent, Undisturbed
  <2> QED
    BY <2>1, <2>2 DEF CustodyInv, StoreInv
<1> QED
  BY <1>4, <1>5

\* Whatever runs are started, killed or refused, with the lock or without: an
\* undisturbed day is all there as frames or all there in its newest video.
THEOREM FramesOrVideo ==
  ASSUME ~DeletionMayStop
  PROVE  Spec => []CustodyInv
<1>1. Init => CustodyInv
  BY NoJobIsNoJob DEF Init, CustodyInv, ReleasedIsWhole, NewestVideo, OneLock,
     MeetingsSeen, Meeting, Shipping, AllOrNothing, VideosAreOfFrames, RunIsCurrent,
     Undisturbed
<1> QED
  BY <1>1, TypeCorrect, CustodyStep, PTL DEF Spec

-------------------------------------------------------------------------------
(* What it takes to disturb a day.                                         *)

Alone == \A r \in Runs : pc[r] # "idle" => r \in locked
OfDaysPast ==
  \A r \in Runs : /\ \A j \in todo[r] : j[2] < today
                  /\ job[r] # NoJob => job[r][2] < today
OrderlyInv == OneLock /\ Alone /\ OfDaysPast /\ NothingDisturbs

LEMMA OfDaysPastStep ==
  ASSUME ByHand \subseteq {NoDate}, TypeOK, OfDaysPast, Next
  PROVE  OfDaysPast'
<1>1. today \in Int /\ \A j \in Jobs : j[2] \in Int
  BY DEF TypeOK, Jobs, Days
<1>2. CASE Midnight
  <2>1. UNCHANGED <<todo, job>> /\ today' = today + 1
    BY <1>2 DEF Midnight, runs
  <2>2. \A r \in Runs : /\ \A j \in todo[r] : j[2] \in Int
                        /\ job[r] # NoJob => job[r][2] \in Int
    BY <1>1 DEF TypeOK
  <2>3. \A r \in Runs : /\ \A j \in todo[r] : j[2] < today + 1
                        /\ job[r] # NoJob => job[r][2] < today + 1
    BY <1>1, <2>2 DEF OfDaysPast
  <2> QED
    BY <2>1, <2>3 DEF OfDaysPast
<1>3. ASSUME NEW r \in Runs, Nightly(r) \/ Manual(r) PROVE OfDaysPast'
  <2>1. PICK date \in {NoDate}, force \in BOOLEAN : Begin(r, date, force)
    BY <1>3 DEF Nightly, Manual
  <2>2. \A j \in Pending(NoDate, force) : j[2] < today
    BY DEF Pending, Newest
  <2>3. /\ todo'[r] = Pending(NoDate, force)
        /\ \A s \in Runs \ {r} : todo'[s] = todo[s]
        /\ UNCHANGED <<today, job>>
    BY <2>1 DEF Begin, TypeOK
  <2> QED
    BY <2>2, <2>3 DEF OfDaysPast
<1>4. ASSUME NEW r \in Runs, Take(r) PROVE OfDaysPast'
  <2>1. PICK j \in todo[r] :
          /\ todo' = [todo EXCEPT ![r] = @ \ {j}]
          /\ job' = job \/ job' = [job EXCEPT ![r] = j]
    BY <1>4 DEF Take
  <2>2. today' = today
    BY <1>4 DEF Take
  <2>3. \A s \in Runs : todo'[s] \subseteq todo[s] /\ (job'[s] = job[s] \/ job'[s] \in todo[s])
    BY <2>1 DEF TypeOK
  <2> QED
    BY <2>2, <2>3 DEF OfDaysPast
<1>5. CASE /\ today' = today
           /\ \A r \in Runs : /\ todo'[r] \subseteq todo[r]
                              /\ job'[r] = job[r] \/ job'[r] = NoJob
  BY <1>5 DEF OfDaysPast
<1>6. \/ Midnight
      \/ \E r \in Runs : Nightly(r) \/ Manual(r) \/ Take(r)
      \/ /\ today' = today
         /\ \A r \in Runs : /\ todo'[r] \subseteq todo[r]
                            /\ job'[r] = job[r] \/ job'[r] = NoJob
  <2>1. ASSUME NEW r \in Runs, BackToLoop(r) \/ Crash(r)
        PROVE  \A s \in Runs : /\ todo'[s] \subseteq todo[s]
                               /\ job'[s] = job[s] \/ job'[s] = NoJob
    BY <2>1 DEF BackToLoop, Crash, TypeOK
  <2> QED
    BY <2>1 DEF Next, Capture, CaptureLate, File, EncodeFails, EncodeDone, Mark,
       KeepFrames, Delete, ShipAny, Ship, ShipInterrupted, End, Crash, runs
<1> QED
  BY <1>2, <1>3, <1>4, <1>5, <1>6

LEMMA OrderlyStep ==
  ASSUME ~LockMayFail, ~LateFrames, ByHand \subseteq {NoDate}
  PROVE  TypeOK /\ TypeOK' /\ OrderlyInv /\ [Next]_vars => OrderlyInv'
<1> SUFFICES ASSUME TypeOK, TypeOK', OrderlyInv, Next PROVE OrderlyInv'
  BY DEF vars, runs, OrderlyInv, OneLock, Alone, OfDaysPast, NothingDisturbs
<1>1. OneLock' /\ Crossing
  BY LockStep DEF OrderlyInv
<1>2. OfDaysPast'
  BY OfDaysPastStep DEF OrderlyInv
<1>3. Alone'
  <2>1. ASSUME NEW r \in Runs, Nightly(r) \/ Manual(r) PROVE Alone'
    <3>1. locked = {} /\ locked' = {r} /\ \A s \in Runs \ {r} : pc'[s] = pc[s]
      BY <2>1 DEF Nightly, Manual, Begin, TakeLock, TypeOK
    <3> QED
      BY <3>1 DEF OrderlyInv, Alone
  <2>2. ASSUME NEW r \in Runs, End(r) \/ Crash(r) PROVE Alone'
    <3>1. /\ locked' = locked \ {r} /\ pc'[r] = "idle"
          /\ \A s \in Runs \ {r} : pc'[s] = pc[s]
      BY <2>2 DEF End, Crash, TypeOK
    <3> QED
      BY <3>1 DEF OrderlyInv, Alone
  <2>3. ASSUME NEW r \in Runs, pc[r] # "idle", locked' = locked,
               \A s \in Runs \ {r} : pc'[s] = pc[s]
        PROVE  Alone'
    BY <2>3 DEF OrderlyInv, Alone
  <2>4. CASE UNCHANGED <<locked, pc>>
    BY <2>4 DEF OrderlyInv, Alone
  <2>5. ASSUME NEW r \in Runs,
               \/ Take(r) \/ EncodeFails(r) \/ EncodeDone(r) \/ Mark(r)
               \/ KeepFrames(r) \/ Delete(r)
        PROVE  /\ pc[r] # "idle" /\ locked' = locked
               /\ \A s \in Runs \ {r} : pc'[s] = pc[s]
    BY <2>5 DEF Take, EncodeFails, EncodeDone, Mark, KeepFrames, Delete, BackToLoop,
                TypeOK
  <2>6. \/ Midnight \/ \E c \in Cameras : Capture(c) \/ CaptureLate(c)
        \/ \E r \in Runs : ShipAny(r)
        => UNCHANGED <<locked, pc>>
    BY DEF Midnight, Capture, CaptureLate, File, ShipAny, Ship, ShipInterrupted, runs
  <2> QED
    BY <2>1, <2>2, <2>3, <2>4, <2>5, <2>6 DEF Next
<1>4. Meeting' = {}
  <2>1. \A r \in Runs : \A j \in Jobs : job'[r] = j \/ Shipping(r)' => r \in locked'
    BY <1>3, NoJobIsNoJob DEF Alone, Shipping, TypeOK
  <2> QED
    BY <1>1, <2>1 DEF Meeting, OneLock
<1>5. Overtaken = {}
  <2> SUFFICES ASSUME NEW j \in Jobs, NEW r \in Runs, job[r] = j,
                      captured'[j] # captured[j]
               PROVE  FALSE
    BY NoJobIsNoJob DEF Overtaken, OrderlyInv, OfDaysPast, TypeOK, Days
  <2>1. j[2] < today
    BY NoJobIsNoJob DEF OrderlyInv, OfDaysPast
  <2>2. PICK c \in Cameras : Capture(c)
    BY DEF Next, Midnight, CaptureLate, Nightly, Manual, Begin, Take, EncodeFails,
       EncodeDone, Mark, KeepFrames, Delete, ShipAny, Ship, ShipInterrupted, End, Crash
  <2>3. j = <<c, today>>
    BY <2>2 DEF Capture, File, TypeOK
  <2> QED
    BY <2>1, <2>3 DEF TypeOK, Days
<1> QED
  BY <1>1, <1>2, <1>3, <1>4, <1>5 DEF OrderlyInv, NothingDisturbs, Crossing

\* With a lock that can be taken, no frame filed late and no --date, every day is
\* an undisturbed one: FramesOrVideo and NothingIsLost are then about all of them.
THEOREM NothingDisturbsADay ==
  ASSUME ~LockMayFail, ~LateFrames, ByHand \subseteq {NoDate}
  PROVE  Spec => []NothingDisturbs
<1>1. Init => OrderlyInv
  BY DEF Init, OrderlyInv, OneLock, Alone, OfDaysPast, NothingDisturbs
<1>2. OrderlyInv => NothingDisturbs
  BY DEF OrderlyInv
<1> QED
  BY <1>1, <1>2, TypeCorrect, OrderlyStep, PTL DEF Spec

-------------------------------------------------------------------------------
(* A marked day stays done.                                                *)

LEMMA DoneStep ==
  ASSUME ~DeletionMayStop
  PROVE  TypeOK /\ DoneInv /\ [Next]_vars => DoneInv'
<1> SUFFICES ASSUME TypeOK, DoneInv, Next PROVE DoneInv'
  BY DEF vars, store, DoneInv
<1>1. crossed \subseteq crossed'
  <2>1. Crossing
    BY DEF Next, Midnight, Capture, CaptureLate, File, Nightly, Manual, Begin, Take,
       EncodeFails, EncodeDone, Mark, KeepFrames, Delete, ShipAny, Ship,
       ShipInterrupted, End, Crash
  <2> QED
    BY <2>1, CrossingSees
<1>2. CASE Midnight
  <2>1. \A j \in done : j[2] \in Int
    BY DEF TypeOK, Jobs, Days
  <2>2. today \in Int /\ today' = today + 1 /\ UNCHANGED <<done, dirs, marked>>
    BY <1>2 DEF TypeOK, Days, Midnight, store
  <2>3. \A j \in done : j[2] < today'
    BY <2>1, <2>2 DEF DoneInv
  <2> QED
    BY <1>1, <2>2, <2>3 DEF DoneInv
<1>3. ASSUME NEW c \in Cameras, Capture(c) \/ CaptureLate(c) PROVE DoneInv'
  <2>1. <<c, today>>[2] = today /\ today \in Int
    BY DEF TypeOK, Days
  <2>2. <<c, today>> \notin done
    BY <2>1 DEF DoneInv
  <2>3. dirs' \subseteq dirs \cup {<<c, today>>} /\ UNCHANGED <<today, marked, done>>
    BY <1>3 DEF Capture, CaptureLate, File
  <2> QED
    BY <1>1, <2>2, <2>3 DEF DoneInv
<1>4. ASSUME NEW r \in Runs, Mark(r) PROVE DoneInv'
  <2>1. ~StillCapturing(job[r]) => job[r][2] < today
    BY <1>4 DEF StillCapturing, Mark, TypeOK, Jobs, Days
  <2> QED
    BY <1>1, <1>4, <2>1 DEF DoneInv, Mark
<1>5. ASSUME NEW r \in Runs, Delete(r) PROVE DoneInv'
  <2>1. \/ dirs' = dirs \ {job[r]} /\ marked' = marked \ {job[r]}
        \/ job[r] \in crossed /\ dirs' = dirs /\ marked \ {job[r]} \subseteq marked'
    BY <1>5 DEF Delete
  <2>2. UNCHANGED <<today, done>>
    BY <1>5 DEF Delete
  <2> QED
    BY <1>1, <2>1, <2>2 DEF DoneInv
<1>6. CASE UNCHANGED <<today, dirs, marked, done>>
  BY <1>1, <1>6 DEF DoneInv
<1>7. \/ Midnight \/ \E c \in Cameras : Capture(c) \/ CaptureLate(c)
      \/ \E r \in Runs : Mark(r) \/ Delete(r)
      \/ UNCHANGED <<today, dirs, marked, done>>
  BY DEF Next, Nightly, Manual, Begin, Take, EncodeFails, EncodeDone, KeepFrames,
         ShipAny, Ship, ShipInterrupted, End, Crash, store
<1> QED
  BY <1>2, <1>3, <1>4, <1>5, <1>6, <1>7

\* "A day is encoded once": no nightly run takes on an undisturbed day that was
\* ever marked.
THEOREM MarkedDayStaysDone ==
  ASSUME ~DeletionMayStop
  PROVE  Spec => EncodedOnce
<1>1. Init => DoneInv
  BY DEF Init, DoneInv
<1>2. TypeOK /\ DoneInv =>
        \A r \in Runs : Nightly(r) => todo'[r] \cap done \subseteq crossed
  <2> SUFFICES ASSUME TypeOK, DoneInv, NEW r \in Runs, Nightly(r)
               PROVE  todo'[r] \cap done \subseteq crossed
    OBVIOUS
  <2>1. todo'[r] = Pending(NoDate, FALSE)
    BY DEF Nightly, Begin, TypeOK
  <2>2. \A j \in Pending(NoDate, FALSE) : j \in dirs /\ j \notin marked
    BY DEF Pending, Newest, NoDate
  <2> QED
    BY <2>1, <2>2 DEF DoneInv
<1> QED
  BY <1>1, <1>2, TypeCorrect, DoneStep, PTL DEF Spec, EncodedOnce

-------------------------------------------------------------------------------
(* The refinement, one day at a time.                                      *)

\* Under the invariant, what exists of an undisturbed day is what was captured.
LEMMA KeptIsCaptured ==
  ASSUME TypeOK, CustodyInv, NEW j \in Undisturbed
  PROVE  Kept[j] = captured[j]
<1>1. out[j] \cup lib[j] \subseteq captured[j]
  BY DEF CustodyInv, VideosAreOfFrames
<1>2. CASE disk[j] = captured[j]
  BY <1>1, <1>2 DEF Kept, Undisturbed
<1>3. CASE disk[j] = {}
  <2>1. out[j] = captured[j] \/ lib[j] = captured[j]
    BY <1>3 DEF CustodyInv, ReleasedIsWhole, NewestVideo
  <2> QED
    BY <1>1, <1>3, <2>1 DEF Kept, Undisturbed
<1> QED
  BY <1>2, <1>3 DEF CustodyInv, AllOrNothing

\* A step of the encoder, as one day sees it.
DayMoves(j) ==
  \/ captured'[j] = captured[j] /\ disk'[j] \subseteq disk[j]
  \/ /\ disk[j] = captured[j]
     /\ \E f \in Frames : /\ captured'[j] = captured[j] \cup {f}
                          /\ disk'[j] = disk[j] \cup {f}

LEMMA FileMoves ==
  ASSUME TypeOK, CustodyInv, NEW k \in Jobs, NEW made, File(k, made),
         k[2] = today \/ k \in dirs, NEW j \in Undisturbed
  PROVE  DayMoves(j)
<1>1. PICK f \in Frames : /\ captured' = [captured EXCEPT ![k] = @ \cup {f}]
                          /\ disk' = [disk EXCEPT ![k] = @ \cup {f}]
  BY DEF File
<1>2. today \in Int
  BY DEF TypeOK, Days
<1>3. CASE j = k
  <2>1. disk[j] = captured[j]
    BY <1>2, <1>3 DEF CustodyInv, AllOrNothing
  <2>2. captured'[j] = captured[j] \cup {f} /\ disk'[j] = disk[j] \cup {f}
    BY <1>1, <1>3 DEF TypeOK
  <2> QED
    BY <2>1, <2>2 DEF DayMoves
<1>4. CASE j # k
  BY <1>1, <1>4 DEF TypeOK, Undisturbed, DayMoves
<1> QED
  BY <1>3, <1>4

LEMMA EveryStepMoves ==
  ASSUME TypeOK, CustodyInv, Next, NEW j \in Undisturbed
  PROVE  DayMoves(j)
<1>1. ASSUME NEW c \in Cameras, Capture(c) PROVE DayMoves(j)
  <2>1. <<c, today>> \in Jobs /\ <<c, today>>[2] = today
    BY DEF TypeOK, Jobs
  <2> QED
    BY <1>1, <2>1, FileMoves DEF Capture
<1>2. ASSUME NEW c \in Cameras, CaptureLate(c) PROVE DayMoves(j)
  <2>1. <<c, today - 1>> \in Jobs /\ <<c, today - 1>> \in dirs
    BY <1>2 DEF TypeOK, CaptureLate
  <2> QED
    BY <1>2, <2>1, FileMoves DEF CaptureLate
<1>3. ASSUME NEW r \in Runs, Delete(r) PROVE DayMoves(j)
  <2>1. captured' = captured /\ j \in Jobs /\ job[r] \in Jobs
    BY <1>3 DEF Delete, TypeOK, Undisturbed
  <2>2. \E left \in SUBSET disk[job[r]] : disk' = [disk EXCEPT ![job[r]] = left]
    BY <1>3 DEF Delete
  <2>3. disk'[j] \subseteq disk[j]
    BY <2>1, <2>2 DEF TypeOK
  <2> QED
    BY <2>1, <2>3 DEF DayMoves
<1>4. CASE UNCHANGED <<captured, disk>>
  BY <1>4 DEF DayMoves
<1>5. \/ \E c \in Cameras : Capture(c) \/ CaptureLate(c)
      \/ \E r \in Runs : Delete(r)
      \/ UNCHANGED <<captured, disk>>
  BY DEF Next, Midnight, Nightly, Manual, Begin, Take, EncodeFails, EncodeDone, Mark,
         KeepFrames, ShipAny, Ship, ShipInterrupted, End, Crash, store
<1> QED
  BY <1>1, <1>2, <1>3, <1>4, <1>5

LEMMA StepRefines ==
  ASSUME TypeOK, TypeOK', CustodyInv, CustodyInv', Next
  PROVE  Custody!Next
<1>1. crossed \subseteq crossed'
  BY LockStep, CrossingSees DEF CustodyInv
<1>2. ASSUME NEW j \in Jobs \ crossed'
      PROVE  Custody!Keep(j) \/ Custody!Release(j) \/ Custody!Same(j)
  <2> USE DEF Custody!Keep, Custody!Release, Custody!Same
  <2>1. j \in Undisturbed /\ j \in Undisturbed'
    BY <1>1 DEF Undisturbed
  <2>2. Kept[j] = captured[j]
    BY <2>1, KeptIsCaptured
  <2>3. Kept'[j] = captured'[j]
    <3>1. out'[j] \cup lib'[j] \subseteq captured'[j]
      BY <2>1 DEF CustodyInv, VideosAreOfFrames
    <3>2. disk'[j] = captured'[j] \/ disk'[j] = {}
      BY <2>1 DEF CustodyInv, AllOrNothing
    <3>3. disk'[j] = {} => out'[j] = captured'[j] \/ lib'[j] = captured'[j]
      BY <2>1 DEF CustodyInv, ReleasedIsWhole, NewestVideo
    <3> QED
      BY <3>1, <3>2, <3>3 DEF Kept
  <2>4. /\ j \in Released <=> captured[j] # {} /\ disk[j] = {}
        /\ j \in Released' <=> captured'[j] # {} /\ disk'[j] = {}
    BY DEF Released
  <2>5. DayMoves(j)
    BY <2>1, EveryStepMoves
  <2>6. CASE captured'[j] = captured[j] /\ disk'[j] \subseteq disk[j]
    BY <2>2, <2>3, <2>4, <2>6
  <2>7. CASE /\ disk[j] = captured[j]
             /\ \E f \in Frames : /\ captured'[j] = captured[j] \cup {f}
                                  /\ disk'[j] = disk[j] \cup {f}
    BY <2>2, <2>3, <2>4, <2>7
  <2> QED
    BY <2>5, <2>6, <2>7 DEF DayMoves
<1> QED
  BY <1>1, <1>2 DEF Custody!Next

\* The encoder implements FrameCustody: no frame of an undisturbed day is lost.
THEOREM NothingIsLost ==
  ASSUME ~DeletionMayStop
  PROVE  Spec => ImplementsCustody
<1>1. Init => Custody!Init
  BY DEF Init, Custody!Init, Kept, Released
<1>2. TypeOK /\ TypeOK' /\ CustodyInv /\ CustodyInv' /\ [Next]_vars
        => [Custody!Next]_<<Kept, Released, crossed>>
  BY StepRefines DEF vars, store, Kept, Released
<1> QED
  BY <1>1, <1>2, TypeCorrect, FramesOrVideo, PTL
     DEF Spec, ImplementsCustody, Custody!Spec
===============================================================================
