----------------------------- MODULE NightlyProofs ----------------------------
(***************************************************************************)
(* What the delivery of the videos and the run history promise, for any    *)
(* number of videos, encodes, cameras, days and runs remembered.           *)
(***************************************************************************)
EXTENDS Delivery, RunHistory, FiniteSetTheorems, SequenceTheorems, WellFoundedInduction,
        TLAPS

-------------------------------------------------------------------------------
(* The videos.                                                             *)
FileRec == [ver : Nat, len : Nat, full : Nat, time : Nat]

StoreTyped ==
  /\ now \in Nat /\ newest \in [Videos -> Nat] /\ queue \subseteq Videos
  /\ local \in [Videos -> FileRec] /\ lib \in [Videos -> FileRec]
  /\ part \in [Videos -> FileRec] /\ under \in [Videos -> FileRec]
  /\ share \in {"up", "down"}

\* What is in video_output is the last video of its name, whole.
LocalIsNewest ==
  \A v \in Videos :
    /\ newest[v] <= now
    /\ local[v] # NoFile =>
         /\ local[v].ver = newest[v] /\ local[v].time = newest[v]
         /\ local[v].len = local[v].full /\ local[v].len > 0 /\ newest[v] > 0

\* A copy of an older video is older than the last encode by more than the slack.
CopyOf(f, v) ==
  /\ f.ver <= now /\ f.time <= now
  /\ f = NoFile \/ f.ver = newest[v] \/ f.time + Slack < newest[v]
  /\ f.ver = newest[v] /\ local[v] # NoFile => f.full = local[v].full

CopiesDated ==
  \A v \in Videos : CopyOf(lib[v], v) /\ CopyOf(part[v], v) /\ CopyOf(under[v], v)

OnIts == {"copy", "copying", "compare", "replace", "unlink"}

\* What the run has in hand is here, and what it is about to delete has arrived.
InHand ==
  /\ \A v \in queue : local[v] # NoFile
  /\ pc = "mount" => \A v \in Videos : local[v] # NoFile => v \in queue
  /\ pc \in OnIts => video \in Videos /\ video \notin queue /\ local[video] # NoFile
  /\ pc \in {"compare", "replace"} =>
       part[video].ver = newest[video] /\ part[video].full = local[video].full
  /\ pc = "replace" => part[video].len = local[video].len
  /\ pc = "unlink" => IsNewest(lib[video], video)
  /\ pc \in {"rsync", "drop"} /\ ~dropped /\ world.require => share = "up"
  /\ pc = "rsync" => \A v \in Videos \ queue : local[v] # NoFile => Arrived(v)
  /\ pc = "drop" => \A v \in queue : Arrived(v)

ByPlatform ==
  /\ pc \in {"mount", "rsync", "drop"} => ~Windows
  /\ NeverHalfThere

DeliveryInv ==
  StoreTyped /\ LocalIsNewest /\ CopiesDated /\ InHand /\ ByPlatform /\ NewestIsKept

LEMMA NoFileIs ==
  NoFile \in FileRec /\ NoFile.ver = 0 /\ NoFile.len = 0 /\ NoFile.full = 0 /\ NoFile.time = 0
BY DEF NoFile, FileRec

\* A file that is not this long, or not this old, is a file all the same.
LEMMA OtherLength ==
  ASSUME NEW f \in FileRec, NEW n \in Nat
  PROVE  /\ [f EXCEPT !.len = n] \in FileRec /\ [f EXCEPT !.len = n].ver = f.ver
         /\ [f EXCEPT !.len = n].full = f.full /\ [f EXCEPT !.len = n].time = f.time
         /\ [f EXCEPT !.len = n].len = n
BY DEF FileRec

LEMMA OtherTime ==
  ASSUME NEW f \in FileRec, NEW t \in Nat
  PROVE  /\ [f EXCEPT !.time = t] \in FileRec /\ [f EXCEPT !.time = t].ver = f.ver
         /\ [f EXCEPT !.time = t].full = f.full /\ [f EXCEPT !.time = t].len = f.len
         /\ [f EXCEPT !.time = t].time = t
BY DEF FileRec

LEMMA DeliveryStarts == DeliveryInit => DeliveryInv
<1> SUFFICES ASSUME DeliveryInit PROVE DeliveryInv
  OBVIOUS
<1>1. /\ local = [v \in Videos |-> NoFile] /\ lib = [v \in Videos |-> NoFile]
      /\ part = [v \in Videos |-> NoFile] /\ under = [v \in Videos |-> NoFile]
      /\ newest = [v \in Videos |-> 0] /\ now = 0 /\ queue = {} /\ pc = "idle"
      /\ share = "up"
  BY DEF DeliveryInit
<1>2. StoreTyped
  BY <1>1, NoFileIs DEF StoreTyped
<1>3. LocalIsNewest /\ CopiesDated
  BY <1>1, NoFileIs DEF LocalIsNewest, CopiesDated, CopyOf
<1>4. InHand /\ ByPlatform /\ NewestIsKept
  BY <1>1 DEF InHand, OnIts, ByPlatform, NeverHalfThere, NewestIsKept
<1> QED
  BY <1>2, <1>3, <1>4 DEF DeliveryInv

\* A copy that is as long as the video here and not older is the same video.
LEMMA SameLengthIsSame ==
  ASSUME DeliveryInv, NEW v \in Videos, local[v] # NoFile, NEW f \in FileRec, CopyOf(f, v),
         f # NoFile, f.len = local[v].len, f.time + Slack >= local[v].time
  PROVE  IsNewest(f, v)
BY DeliveryAssumption DEF DeliveryInv, StoreTyped, LocalIsNewest, CopyOf, IsNewest, Whole, FileRec

\* The steps that leave the files and the run alone.
LEMMA Undisturbed ==
  ASSUME DeliveryInv,
         UNCHANGED <<world, now, newest, local, lib, part, under, excused, queue, video, pc>>,
         \/ UNCHANGED <<share, dropped>>
         \/ share' = "down" /\ dropped' = (dropped \/ pc # "idle")
         \/ share' = "up" /\ UNCHANGED dropped
  PROVE  DeliveryInv'
<1>1. StoreTyped' /\ LocalIsNewest' /\ CopiesDated' /\ ByPlatform' /\ NewestIsKept'
  BY DEF DeliveryInv, StoreTyped, LocalIsNewest, CopiesDated, CopyOf, ByPlatform, Windows,
     NeverHalfThere, NewestIsKept, Arrived, IsNewest, Whole
<1>2. InHand'
  BY DEF DeliveryInv, InHand, Arrived, IsNewest, Whole
<1> QED
  BY <1>1, <1>2 DEF DeliveryInv

\* The steps of a run that only change what is in hand.
LEMMA FilesAlone ==
  ASSUME DeliveryInv, UNCHANGED <<world, now, newest, local, lib, part, under, share, excused>>,
         queue' \subseteq Videos, InHand', pc' \in {"mount", "rsync", "drop"} => ~Windows
  PROVE  DeliveryInv'
BY DEF DeliveryInv, StoreTyped, LocalIsNewest, CopiesDated, CopyOf, ByPlatform, Windows,
   NeverHalfThere, NewestIsKept, Arrived, IsNewest, Whole

LEMMA EncodeStep == ASSUME DeliveryInv, NEW v \in Videos, Encode(v) PROVE DeliveryInv'
<1>1. PICK len \in 1..MaxLength :
        /\ local' = [local EXCEPT ![v] = [ver |-> now', len |-> len, full |-> len, time |-> now']]
        /\ now' = now + Slack + 1 /\ newest' = [newest EXCEPT ![v] = now'] /\ pc = "idle"
        /\ UNCHANGED <<world, lib, part, under, share, pc, queue, video, dropped, excused>>
  BY DEF Encode, run
<1> DEFINE f == [ver |-> now', len |-> len, full |-> len, time |-> now']
<1>2. now' \in Nat /\ len \in Nat /\ len > 0
  BY <1>1, DeliveryAssumption DEF DeliveryInv, StoreTyped
<1>3. f \in FileRec /\ f.ver = now' /\ f.len = len /\ f.full = len /\ f.time = now' /\ f # NoFile
  BY <1>2, NoFileIs DEF FileRec
<1> HIDE DEF f
<1>4. local'[v] = f /\ newest'[v] = now'
  BY <1>1 DEF DeliveryInv, StoreTyped, f
<1>5. \A w \in Videos \ {v} : local'[w] = local[w] /\ newest'[w] = newest[w]
  BY <1>1 DEF DeliveryInv, StoreTyped
<1>6. StoreTyped'
  <2>1. local' \in [Videos -> FileRec]
    BY <1>1, <1>3 DEF DeliveryInv, StoreTyped, f
  <2> QED
    BY <1>1, <1>2, <2>1 DEF DeliveryInv, StoreTyped
<1>7. LocalIsNewest'
  BY <1>1, <1>2, <1>3, <1>4, <1>5, DeliveryAssumption DEF DeliveryInv, StoreTyped, LocalIsNewest
<1>8. ASSUME NEW w \in Videos, NEW g \in FileRec, CopyOf(g, w) PROVE CopyOf(g, w)'
  BY <1>1, <1>4, <1>5, <1>8, DeliveryAssumption DEF DeliveryInv, StoreTyped, CopyOf, FileRec
<1>9. CopiesDated'
  BY <1>1, <1>8 DEF DeliveryInv, StoreTyped, CopiesDated
<1>10. InHand'
  <2>1. \A w \in queue : local'[w] # NoFile
    BY <1>3, <1>4, <1>5 DEF DeliveryInv, StoreTyped, InHand
  <2> QED
    BY <1>1, <2>1 DEF InHand, OnIts
<1>11. NewestIsKept'
  <2>1. IsNewest(local[v], v)'
    BY <1>3, <1>4 DEF IsNewest, Whole
  <2>2. \A w \in Videos \ {v} :
          /\ IsNewest(local[w], w)' <=> IsNewest(local[w], w)
          /\ Arrived(w)' <=> Arrived(w)
    BY <1>1, <1>5 DEF IsNewest, Whole, Arrived
  <2> QED
    BY <1>5, <2>1, <2>2 DEF DeliveryInv, NewestIsKept
<1>12. ByPlatform'
  BY <1>1 DEF DeliveryInv, ByPlatform, Windows, NeverHalfThere, Whole
<1> QED
  BY <1>6, <1>7, <1>9, <1>10, <1>11, <1>12 DEF DeliveryInv

\* A run that is over has nothing in hand.
LEMMA OverLeaves ==
  ASSUME DeliveryInv, UNCHANGED <<world, now, newest, local, lib, part, under, share, excused>>, Over
  PROVE  DeliveryInv'
<1>1. InHand'
  BY DEF Over, InHand, OnIts
<1>2. UNCHANGED <<world, now, newest, local, lib, part, under, share, excused>> /\ queue' \subseteq Videos
      /\ pc' \notin {"mount", "rsync", "drop"}
  BY DEF Over
<1> QED
  BY <1>1, <1>2, FilesAlone

LEMMA BeginStep == DeliveryInv /\ Begin => DeliveryInv'
<1> SUFFICES ASSUME DeliveryInv, Begin PROVE DeliveryInv'
  OBVIOUS
<1>1. /\ queue' = {v \in Videos : local[v] # NoFile} /\ pc' \in {"reach", "mount"}
      /\ pc' = "mount" => ~Windows
      /\ UNCHANGED <<world, now, newest, local, lib, part, under, share, excused>>
  BY DEF Begin, coded, files
<1>2. InHand'
  BY <1>1 DEF InHand, OnIts
<1> QED
  BY <1>1, <1>2, FilesAlone

LEMMA ReachStep == DeliveryInv /\ (ReachAsWeAre \/ ReachConnecting) => DeliveryInv'
<1> SUFFICES ASSUME DeliveryInv, ReachAsWeAre \/ ReachConnecting PROVE DeliveryInv'
  OBVIOUS
<1>1. UNCHANGED <<world, now, newest, local, lib, part, under, share, excused>>
  BY DEF ReachAsWeAre, ReachConnecting, coded, files
<1>2. CASE pc' = "move" /\ queue' = queue
  <2>1. InHand'
    BY <1>1, <1>2 DEF DeliveryInv, InHand, OnIts
  <2> QED
    BY <1>1, <1>2, <2>1, FilesAlone DEF DeliveryInv, StoreTyped
<1>3. CASE Over
  BY <1>1, <1>3, OverLeaves
<1> QED
  BY <1>2, <1>3 DEF ReachAsWeAre, ReachConnecting

LEMMA MoveNextStep == DeliveryInv /\ MoveNext => DeliveryInv'
<1> SUFFICES ASSUME DeliveryInv, MoveNext PROVE DeliveryInv'
  OBVIOUS
<1>1. PICK v \in queue : /\ queue' = queue \ {v} /\ video' = v
                         /\ pc' = IF AlreadyThere(v) THEN "unlink" ELSE "copy"
  BY DEF MoveNext
<1>2. UNCHANGED <<world, now, newest, local, lib, part, under, share, excused>>
  BY DEF MoveNext, coded, files
<1>3. v \in Videos /\ local[v] # NoFile /\ lib[v] \in FileRec /\ CopyOf(lib[v], v)
  BY <1>1 DEF DeliveryInv, StoreTyped, InHand, CopiesDated
<1>4. AlreadyThere(v) => IsNewest(lib[v], v)
  BY <1>3, SameLengthIsSame DEF AlreadyThere
<1>5. InHand'
  BY <1>1, <1>2, <1>3, <1>4 DEF DeliveryInv, InHand, IsNewest, Whole
<1> QED
  BY <1>1, <1>2, <1>5, FilesAlone DEF DeliveryInv, StoreTyped

\* What is local is a file of the last encode of its name.
LEMMA InVideoOutput ==
  ASSUME DeliveryInv, NEW v \in Videos, local[v] # NoFile
  PROVE  /\ local[v] \in FileRec /\ local[v].ver = newest[v] /\ local[v].time = newest[v]
         /\ newest[v] <= now /\ now \in Nat /\ newest[v] \in Nat /\ newest[v] > 0
         /\ local[v].len = local[v].full /\ local[v].len > 0 /\ IsNewest(local[v], v)
BY DEF DeliveryInv, StoreTyped, LocalIsNewest, IsNewest, Whole

\* A copy of it, of any length, is dated by it or by the clock of the share.
LEMMA CopyOfLocal ==
  ASSUME DeliveryInv, NEW v \in Videos, local[v] # NoFile, NEW f \in FileRec,
         f.ver = local[v].ver, f.full = local[v].full, f.time <= now
  PROVE  CopyOf(f, v)
BY InVideoOutput DEF CopyOf

\* The steps that only change the .part of the video in hand.
LEMMA PartAlone ==
  ASSUME DeliveryInv, UNCHANGED <<world, now, newest, local, lib, under, share, excused, queue>>,
         NEW f \in FileRec, NEW v \in Videos, CopyOf(f, v), part' = [part EXCEPT ![v] = f], InHand',
         pc' \notin {"mount", "rsync", "drop"}
  PROVE  DeliveryInv'
<1>1. part' \in [Videos -> FileRec] /\ part'[v] = f /\ \A w \in Videos \ {v} : part'[w] = part[w]
  BY DEF DeliveryInv, StoreTyped
<1>2. StoreTyped' /\ LocalIsNewest'
  BY <1>1 DEF DeliveryInv, StoreTyped, LocalIsNewest
<1>3. CopiesDated'
  BY <1>1 DEF DeliveryInv, CopiesDated, CopyOf
<1>4. ByPlatform' /\ NewestIsKept'
  BY DEF DeliveryInv, ByPlatform, Windows, NeverHalfThere, NewestIsKept, Arrived, IsNewest, Whole
<1> QED
  BY <1>2, <1>3, <1>4 DEF DeliveryInv

LEMMA CopyStartsStep == DeliveryInv /\ CopyStarts => DeliveryInv'
<1> SUFFICES ASSUME DeliveryInv, CopyStarts PROVE DeliveryInv'
  OBVIOUS
<1>1. pc = "copy" /\ pc' = "copying"
      /\ UNCHANGED <<world, now, newest, local, lib, under, share, excused, queue, video>>
  BY DEF CopyStarts, coded
<1>2. video \in Videos /\ local[video] # NoFile
  BY <1>1 DEF DeliveryInv, InHand, OnIts
<1> DEFINE f == [local[video] EXCEPT !.len = 0]
<1>3. f \in FileRec /\ f.ver = local[video].ver /\ f.full = local[video].full /\ f.time <= now
  BY <1>2, InVideoOutput, OtherLength
<1>4. part' = [part EXCEPT ![video] = f]
  BY DEF CopyStarts
<1> HIDE DEF f
<1>5. CopyOf(f, video)
  BY <1>2, <1>3, CopyOfLocal
<1>6. InHand'
  BY <1>1 DEF DeliveryInv, InHand, OnIts
<1> QED
  BY <1>1, <1>2, <1>3, <1>4, <1>5, <1>6, PartAlone

LEMMA CopyEndsStep == NasAhead = 0 /\ DeliveryInv /\ CopyEnds => DeliveryInv'
<1> SUFFICES ASSUME NasAhead = 0, DeliveryInv, CopyEnds PROVE DeliveryInv'
  OBVIOUS
<1>1. pc = "copying" /\ pc' = "compare"
      /\ UNCHANGED <<world, now, newest, local, lib, under, share, excused, queue, video>>
  BY DEF CopyEnds, coded
<1>2. video \in Videos /\ local[video] # NoFile
  BY <1>1 DEF DeliveryInv, InHand, OnIts
<1>3. PICK len \in 0..local[video].len :
        part' = [part EXCEPT ![video] = [local[video] EXCEPT !.len = len, !.time = now + NasAhead]]
  BY DEF CopyEnds
<1>4. len \in Nat /\ now \in Nat /\ now + NasAhead = now /\ local[video] \in FileRec
  BY <1>2, InVideoOutput DEF FileRec
<1> DEFINE g == [local[video] EXCEPT !.len = len]
           f == [g EXCEPT !.time = now]
<1>5. g \in FileRec /\ g.ver = local[video].ver /\ g.full = local[video].full
  BY <1>4, OtherLength
<1>6. part' = [part EXCEPT ![video] = f]
  BY <1>3, <1>4
<1> HIDE DEF g
<1>7. f \in FileRec /\ f.ver = g.ver /\ f.full = g.full /\ f.time = now
  BY <1>4, <1>5, OtherTime
<1> HIDE DEF f
<1>8. CopyOf(f, video)
  BY <1>2, <1>4, <1>5, <1>7, CopyOfLocal
<1>9. part'[video] = f
  BY <1>2, <1>6 DEF DeliveryInv, StoreTyped
<1>10. InHand'
  BY <1>1, <1>2, <1>5, <1>7, <1>9, InVideoOutput DEF DeliveryInv, InHand, OnIts
<1> QED
  BY <1>1, <1>2, <1>6, <1>7, <1>8, <1>10, PartAlone

LEMMA CompareStep == DeliveryInv /\ Compare => DeliveryInv'
<1> SUFFICES ASSUME DeliveryInv, Compare PROVE DeliveryInv'
  OBVIOUS
<1>1. pc = "compare" /\ pc' = "replace" /\ part[video].len = local[video].len
      /\ UNCHANGED <<world, now, newest, local, lib, under, share, excused, queue, video>>
  BY DEF Compare, coded
<1>2. video \in Videos /\ local[video] # NoFile /\ part[video] \in FileRec
      /\ part[video].ver = newest[video] /\ part[video].full = local[video].full
      /\ CopyOf(part[video], video)
  BY <1>1 DEF DeliveryInv, StoreTyped, CopiesDated, InHand, OnIts
<1>3. PICK f \in FileRec :
        /\ part' = [part EXCEPT ![video] = f] /\ f.ver = part[video].ver
        /\ f.full = part[video].full /\ f.len = part[video].len /\ CopyOf(f, video)
  <2>1. CASE world.stat
    <3> DEFINE g == [part[video] EXCEPT !.time = local[video].time]
    <3>1. g \in FileRec /\ g.ver = part[video].ver /\ g.full = part[video].full
          /\ g.len = part[video].len /\ g.time = local[video].time
      BY <1>2, InVideoOutput, OtherTime
    <3>2. part' = [part EXCEPT ![video] = g]
      BY <2>1 DEF Compare
    <3> HIDE DEF g
    <3>3. CopyOf(g, video)
      BY <1>2, <3>1, InVideoOutput, CopyOfLocal
    <3> QED
      BY <3>1, <3>2, <3>3
  <2>2. CASE ~world.stat
    <3>1. part' = [part EXCEPT ![video] = part[video]]
      BY <1>2, <2>2 DEF Compare, DeliveryInv, StoreTyped
    <3> QED
      BY <1>2, <3>1
  <2> QED
    BY <2>1, <2>2
<1>4. part'[video] = f
  BY <1>2, <1>3 DEF DeliveryInv, StoreTyped
<1>5. InHand'
  BY <1>1, <1>2, <1>3, <1>4 DEF DeliveryInv, InHand, OnIts
<1> QED
  BY <1>1, <1>2, <1>3, <1>5, PartAlone

LEMMA FailStep == DeliveryInv /\ Fail => DeliveryInv'
<1> SUFFICES ASSUME DeliveryInv, Fail PROVE DeliveryInv'
  OBVIOUS
<1>1. pc \in OnIts /\ pc' = "move"
      /\ UNCHANGED <<world, now, newest, local, lib, under, share, excused, queue>>
  BY DEF Fail, coded, OnIts
<1>2. video \in Videos
  BY <1>1 DEF DeliveryInv, InHand
<1>3. InHand'
  BY <1>1 DEF DeliveryInv, InHand, OnIts
<1>4. CASE part' = part
  BY <1>1, <1>3, <1>4, FilesAlone DEF DeliveryInv, StoreTyped
<1>5. CASE part' = [part EXCEPT ![video] = NoFile]
  <2>1. NoFile \in FileRec /\ CopyOf(NoFile, video)
    BY <1>2, NoFileIs DEF CopyOf, DeliveryInv, StoreTyped, CopiesDated, LocalIsNewest
  <2> QED
    BY <1>1, <1>2, <1>3, <1>5, <2>1, PartAlone
<1> QED
  BY <1>4, <1>5 DEF Fail, DropPart

LEMMA ReplaceStep == DeliveryInv /\ Replace => DeliveryInv'
<1> SUFFICES ASSUME DeliveryInv, Replace PROVE DeliveryInv'
  OBVIOUS
<1>1. /\ pc = "replace" /\ pc' = "unlink" /\ lib' = [lib EXCEPT ![video] = part[video]]
      /\ part' = [part EXCEPT ![video] = NoFile]
      /\ UNCHANGED <<world, now, newest, local, under, share, excused, queue, video>>
  BY DEF Replace, coded
<1>2. video \in Videos /\ local[video] # NoFile /\ part[video] \in FileRec
      /\ part[video].ver = newest[video] /\ part[video].full = local[video].full
      /\ part[video].len = local[video].len /\ CopyOf(part[video], video)
  BY <1>1 DEF DeliveryInv, StoreTyped, CopiesDated, InHand, OnIts
<1>3. /\ lib' \in [Videos -> FileRec] /\ part' \in [Videos -> FileRec]
      /\ lib'[video] = part[video] /\ part'[video] = NoFile
      /\ \A w \in Videos \ {video} : lib'[w] = lib[w] /\ part'[w] = part[w]
  BY <1>1, <1>2, NoFileIs DEF DeliveryInv, StoreTyped
<1>4. Whole(lib'[video]) /\ lib'[video] # NoFile /\ IsNewest(lib[video], video)'
  BY <1>1, <1>2, <1>3, InVideoOutput, NoFileIs DEF Whole, IsNewest
<1>5. CopyOf(NoFile, video)
  <2>1. newest[video] \in Nat /\ newest[video] > 0 /\ now \in Nat
    BY <1>2, InVideoOutput
  <2> QED
    BY <2>1, NoFileIs DEF CopyOf
<1>6. StoreTyped' /\ LocalIsNewest'
  BY <1>1, <1>3 DEF DeliveryInv, StoreTyped, LocalIsNewest
<1>7. CopiesDated'
  BY <1>1, <1>2, <1>3, <1>5 DEF DeliveryInv, CopiesDated, CopyOf
<1>8. NeverHalfThere' /\ ByPlatform'
  BY <1>1, <1>3, <1>4 DEF DeliveryInv, ByPlatform, Windows, NeverHalfThere, Whole
<1>9. NewestIsKept'
  BY <1>1, <1>3, <1>4 DEF DeliveryInv, NewestIsKept, Arrived, IsNewest, Whole
<1>10. InHand'
  BY <1>1, <1>4 DEF DeliveryInv, InHand, OnIts
<1> QED
  BY <1>6, <1>7, <1>8, <1>9, <1>10 DEF DeliveryInv

\* An original may go when its video has arrived.
LEMMA OriginalGoes ==
  ASSUME DeliveryInv, UNCHANGED <<world, now, newest, lib, part, under, share, excused>>,
         NEW v \in Videos, Arrived(v),
         local' = local \/ local' = [local EXCEPT ![v] = NoFile],
         queue' \subseteq Videos, InHand', pc' \in {"mount", "rsync", "drop"} => ~Windows
  PROVE  DeliveryInv'
<1>1. /\ local' \in [Videos -> FileRec]
      /\ \A w \in Videos : local'[w] \in {local[w], NoFile}
      /\ \A w \in Videos \ {v} : local'[w] = local[w]
  BY NoFileIs DEF DeliveryInv, StoreTyped
<1>2. StoreTyped' /\ LocalIsNewest'
  BY <1>1 DEF DeliveryInv, StoreTyped, LocalIsNewest
<1>3. CopiesDated'
  BY <1>1 DEF DeliveryInv, CopiesDated, CopyOf
<1>4. \A w \in Videos : Arrived(w)' <=> Arrived(w)
  BY DEF Arrived, IsNewest, Whole
<1>5. NewestIsKept'
  BY <1>1, <1>4 DEF DeliveryInv, NewestIsKept, IsNewest, Whole
<1>6. ByPlatform'
  BY DEF DeliveryInv, ByPlatform, Windows, NeverHalfThere, Whole
<1> QED
  BY <1>2, <1>3, <1>5, <1>6 DEF DeliveryInv

LEMMA UnlinkStep == DeliveryInv /\ Unlink => DeliveryInv'
<1> SUFFICES ASSUME DeliveryInv, Unlink PROVE DeliveryInv'
  OBVIOUS
<1>1. /\ pc = "unlink" /\ pc' = "move"
      /\ local' = local \/ local' = [local EXCEPT ![video] = NoFile]
      /\ UNCHANGED <<world, now, newest, lib, part, under, share, excused, queue>>
  BY DEF Unlink, coded
<1>2. video \in Videos \ queue /\ Arrived(video)
  BY <1>1 DEF DeliveryInv, InHand, OnIts, Arrived
<1>3. InHand'
  <2>1. \A w \in queue : local'[w] # NoFile
    BY <1>1, <1>2 DEF DeliveryInv, StoreTyped, InHand
  <2> QED
    BY <1>1, <2>1 DEF InHand, OnIts
<1> QED
  BY <1>1, <1>2, <1>3, OriginalGoes DEF DeliveryInv, StoreTyped

LEMMA MountStep == DeliveryInv /\ LookAtMount => DeliveryInv'
<1> SUFFICES ASSUME DeliveryInv, LookAtMount PROVE DeliveryInv'
  OBVIOUS
<1>1. pc = "mount" /\ UNCHANGED <<world, now, newest, local, lib, part, under, share, excused>>
  BY DEF LookAtMount, coded, files
<1>2. CASE Over
  BY <1>1, <1>2, OverLeaves
<1>3. CASE ~MountProblem /\ pc' = "rsync" /\ UNCHANGED <<queue, video, dropped>>
  <2>1. world.require => share = "up"
    BY <1>3 DEF MountProblem, DeliveryInv, StoreTyped
  <2>2. InHand'
    BY <1>1, <1>3, <2>1 DEF DeliveryInv, InHand, OnIts
  <2> QED
    BY <1>1, <1>3, <2>2, FilesAlone DEF DeliveryInv, StoreTyped, ByPlatform
<1> QED
  BY <1>2, <1>3 DEF LookAtMount

\* A file that rsync writes, whole or in part, to the share or under it.
LEMMA RsyncWrites ==
  ASSUME DeliveryInv, pc = "rsync", NEW v \in queue, NEW f \in FileRec, NEW g \in FileRec,
         WriteTo(v, [lib EXCEPT ![v] = f], [under EXCEPT ![v] = g]),
         UNCHANGED <<world, newest, share>>
  PROVE  /\ lib' \in [Videos -> FileRec] /\ under' \in [Videos -> FileRec]
         /\ \A w \in Videos :
              \/ lib'[w] = lib[w] /\ under'[w] = under[w]
              \/ w = v /\ lib'[w] \in {lib[w], f} /\ under'[w] \in {under[w], g}
         /\ \A w \in Videos \ {v} : Arrived(w)' <=> Arrived(w)
         /\ IsNewest(f, v) /\ IsNewest(g, v) => Arrived(v)'
<1>1. v \in Videos
  BY DEF DeliveryInv, StoreTyped
<1>2. CASE share = "up"
  <2>1. lib' = [lib EXCEPT ![v] = f] /\ UNCHANGED <<under, excused>>
    BY <1>2 DEF WriteTo
  <2>2. lib' \in [Videos -> FileRec] /\ lib'[v] = f /\ \A w \in Videos \ {v} : lib'[w] = lib[w]
    BY <1>1, <2>1 DEF DeliveryInv, StoreTyped
  <2> QED
    BY <1>1, <2>1, <2>2 DEF DeliveryInv, StoreTyped, Arrived, IsNewest, Whole
<1>3. CASE share # "up"
  <2>1. /\ under' = [under EXCEPT ![v] = g] /\ UNCHANGED lib
        /\ excused' = IF dropped THEN excused \cup {v} ELSE excused \ {v}
    BY <1>3 DEF WriteTo
  <2>2. under' \in [Videos -> FileRec] /\ under'[v] = g
        /\ \A w \in Videos \ {v} : under'[w] = under[w] /\ (w \in excused' <=> w \in excused)
    BY <1>1, <2>1 DEF DeliveryInv, StoreTyped
  <2>3. v \in excused' \/ ~world.require
    BY <1>3, <2>1 DEF DeliveryInv, InHand
  <2> QED
    BY <1>1, <2>1, <2>2, <2>3 DEF DeliveryInv, StoreTyped, Arrived, IsNewest, Whole
<1> QED
  BY <1>2, <1>3

LEMMA RsyncFileStep == NasAhead = 0 /\ DeliveryInv /\ RsyncFile => DeliveryInv'
<1> SUFFICES ASSUME NasAhead = 0, DeliveryInv, RsyncFile PROVE DeliveryInv'
  OBVIOUS
<1>1. PICK v \in queue :
        /\ queue' = queue \ {v} /\ WriteTo(v, Arrives(lib, v), Arrives(under, v))
        /\ local' = local \/ local' = [local EXCEPT ![v] = NoFile]
  BY DEF RsyncFile
<1>2. pc = "rsync" /\ pc' = "rsync" /\ UNCHANGED <<world, now, newest, part, share, dropped>>
  BY DEF RsyncFile, coded
<1>3. v \in Videos /\ local[v] # NoFile /\ lib[v] \in FileRec /\ under[v] \in FileRec
      /\ CopyOf(lib[v], v) /\ CopyOf(under[v], v)
  BY <1>1 DEF DeliveryInv, StoreTyped, InHand, CopiesDated
<1>4. ASSUME NEW h \in [Videos -> FileRec], CopyOf(h[v], v)
      PROVE  \E f \in FileRec : /\ Arrives(h, v) = [h EXCEPT ![v] = f]
                                /\ CopyOf(f, v) /\ IsNewest(f, v)
  <2>1. CASE Same(h[v], local[v])
    <3>1. Arrives(h, v) = [h EXCEPT ![v] = h[v]]
      BY <1>3, <2>1, <1>4 DEF Arrives
    <3>2. h[v] \in FileRec /\ h[v].len = local[v].len /\ h[v].time = local[v].time
          /\ h[v].len > 0 /\ local[v].time \in Nat
      BY <1>3, <2>1, <1>4, InVideoOutput DEF Same
    <3>3. h[v] # NoFile /\ h[v].time + Slack >= local[v].time
      BY <3>2, NoFileIs, DeliveryAssumption
    <3>4. IsNewest(h[v], v)
      BY <1>3, <1>4, <3>2, <3>3, SameLengthIsSame
    <3> QED
      BY <1>4, <3>1, <3>2, <3>4
  <2>2. CASE ~Same(h[v], local[v])
    <3> DEFINE t == IF world.stat THEN local[v].time ELSE now + NasAhead
               f == [local[v] EXCEPT !.time = t]
    <3>1. t \in Nat /\ t <= now /\ local[v] \in FileRec
      BY <1>3, InVideoOutput
    <3>2. Arrives(h, v) = [h EXCEPT ![v] = f]
      BY <2>2 DEF Arrives
    <3> HIDE DEF t
    <3>3. f \in FileRec /\ f.ver = local[v].ver /\ f.full = local[v].full /\ f.len = local[v].len
          /\ f.time = t
      BY <3>1, OtherTime
    <3> HIDE DEF f
    <3>4. CopyOf(f, v)
      BY <1>3, <3>1, <3>3, CopyOfLocal
    <3>5. IsNewest(f, v)
      BY <1>3, <3>3, InVideoOutput, NoFileIs DEF IsNewest, Whole
    <3> QED
      BY <3>2, <3>3, <3>4, <3>5
  <2> QED
    BY <2>1, <2>2
<1>5. PICK f \in FileRec : Arrives(lib, v) = [lib EXCEPT ![v] = f] /\ CopyOf(f, v) /\ IsNewest(f, v)
  BY <1>3, <1>4 DEF DeliveryInv, StoreTyped
<1>6. PICK g \in FileRec : Arrives(under, v) = [under EXCEPT ![v] = g] /\ CopyOf(g, v) /\ IsNewest(g, v)
  BY <1>3, <1>4 DEF DeliveryInv, StoreTyped
<1>7. WriteTo(v, [lib EXCEPT ![v] = f], [under EXCEPT ![v] = g])
  BY <1>1, <1>5, <1>6
<1>8. /\ local' \in [Videos -> FileRec]
      /\ \A w \in Videos : local'[w] \in {local[w], NoFile}
      /\ \A w \in Videos \ {v} : local'[w] = local[w]
  BY <1>1, NoFileIs DEF DeliveryInv, StoreTyped
<1>9. /\ lib' \in [Videos -> FileRec] /\ under' \in [Videos -> FileRec]
      /\ \A w \in Videos :
           \/ lib'[w] = lib[w] /\ under'[w] = under[w]
           \/ w = v /\ lib'[w] \in {lib[w], f} /\ under'[w] \in {under[w], g}
      /\ \A w \in Videos \ {v} : Arrived(w)' <=> Arrived(w)
      /\ Arrived(v)'
  BY <1>2, <1>5, <1>6, <1>7, RsyncWrites
<1>10. StoreTyped' /\ LocalIsNewest'
  BY <1>1, <1>2, <1>8, <1>9 DEF DeliveryInv, StoreTyped, LocalIsNewest
<1>11. CopiesDated'
  <2>1. ASSUME NEW w \in Videos, NEW h, CopyOf(h, w) PROVE CopyOf(h, w)'
    BY <1>2, <1>8, <2>1 DEF CopyOf
  <2>2. ASSUME NEW w \in Videos
        PROVE  CopyOf(lib'[w], w) /\ CopyOf(part[w], w) /\ CopyOf(under'[w], w)
    BY <1>5, <1>6, <1>9 DEF DeliveryInv, CopiesDated
  <2> QED
    BY <1>2, <2>1, <2>2 DEF CopiesDated
<1>12. NewestIsKept'
  BY <1>2, <1>8, <1>9 DEF DeliveryInv, NewestIsKept, IsNewest, Whole
<1>13. ByPlatform'
  BY <1>2 DEF DeliveryInv, ByPlatform, Windows, NeverHalfThere
<1>14. InHand'
  <2>1. \A w \in queue' : local'[w] # NoFile
    BY <1>1, <1>8 DEF DeliveryInv, StoreTyped, InHand
  <2>2. \A w \in Videos \ queue' : local'[w] # NoFile => Arrived(w)'
    BY <1>1, <1>2, <1>8, <1>9 DEF DeliveryInv, InHand
  <2>3. ~dropped' /\ world'.require => share' = "up"
    BY <1>2 DEF DeliveryInv, InHand
  <2> QED
    BY <1>2, <2>1, <2>2, <2>3 DEF InHand, OnIts
<1> QED
  BY <1>10, <1>11, <1>12, <1>13, <1>14 DEF DeliveryInv

LEMMA RsyncFailsStep == NasAhead = 0 /\ DeliveryInv /\ RsyncFails => DeliveryInv'
<1> SUFFICES ASSUME NasAhead = 0, DeliveryInv, RsyncFails PROVE DeliveryInv'
  OBVIOUS
<1>1. pc = "rsync" /\ Over /\ UNCHANGED <<world, now, newest, local, part, share>>
  BY DEF RsyncFails, coded
<1>2. CASE UNCHANGED <<lib, under, excused>>
  BY <1>1, <1>2, OverLeaves
<1>3. CASE \E v \in queue : WriteTo(v, PartOf(lib, v), PartOf(under, v))
  <2>1. PICK v \in queue : WriteTo(v, PartOf(lib, v), PartOf(under, v))
    BY <1>3
  <2>2. v \in Videos /\ local[v] # NoFile
    BY DEF DeliveryInv, StoreTyped, InHand
  <2> DEFINE n == local[v].len - 1
             e == [local[v] EXCEPT !.len = n]
             f == [e EXCEPT !.time = now + NasAhead]
  <2>3. n \in Nat /\ now + NasAhead = now /\ now \in Nat /\ local[v] \in FileRec
    BY <2>2, InVideoOutput DEF FileRec
  <2>4. PartOf(lib, v) = [lib EXCEPT ![v] = f] /\ PartOf(under, v) = [under EXCEPT ![v] = f]
    BY DEF PartOf
  <2> HIDE DEF n
  <2>5. e \in FileRec /\ e.ver = local[v].ver /\ e.full = local[v].full
    BY <2>3, OtherLength
  <2> HIDE DEF e
  <2>6. f \in FileRec /\ f.ver = e.ver /\ f.full = e.full /\ f.time = now
    BY <2>3, <2>5, OtherTime
  <2> HIDE DEF f
  <2>7. CopyOf(f, v)
    BY <2>2, <2>3, <2>5, <2>6, CopyOfLocal
  <2>8. WriteTo(v, [lib EXCEPT ![v] = f], [under EXCEPT ![v] = f])
    BY <2>1, <2>4
  <2>9. queue' \subseteq Videos
    BY <1>1 DEF Over
  <2>10. /\ lib' \in [Videos -> FileRec] /\ under' \in [Videos -> FileRec]
         /\ \A w \in Videos :
              \/ lib'[w] = lib[w] /\ under'[w] = under[w]
              \/ w = v /\ lib'[w] \in {lib[w], f} /\ under'[w] \in {under[w], f}
         /\ \A w \in Videos \ {v} : Arrived(w)' <=> Arrived(w)
    BY <1>1, <2>6, <2>8, RsyncWrites
  <2>11. IsNewest(local[v], v)'
    BY <1>1, <2>2, InVideoOutput DEF IsNewest, Whole
  <2>12. NewestIsKept'
    BY <1>1, <2>10, <2>11 DEF DeliveryInv, NewestIsKept, IsNewest, Whole
  <2>13. StoreTyped' /\ LocalIsNewest'
    BY <1>1, <2>9, <2>10 DEF DeliveryInv, StoreTyped, LocalIsNewest
  <2>14. CopiesDated'
    BY <1>1, <2>7, <2>10 DEF DeliveryInv, CopiesDated, CopyOf
  <2>15. InHand' /\ ByPlatform'
    BY <1>1 DEF DeliveryInv, Over, InHand, OnIts, ByPlatform, Windows, NeverHalfThere
  <2> QED
    BY <2>12, <2>13, <2>14, <2>15 DEF DeliveryInv
<1> QED
  BY <1>2, <1>3 DEF RsyncFails

LEMMA RsyncDoneStep == DeliveryInv /\ RsyncDone => DeliveryInv'
<1> SUFFICES ASSUME DeliveryInv, RsyncDone PROVE DeliveryInv'
  OBVIOUS
<1>1. pc = "rsync" /\ queue = {}
      /\ UNCHANGED <<world, now, newest, local, lib, part, under, share, excused>>
  BY DEF RsyncDone, coded, files
<1>2. CASE Over
  BY <1>1, <1>2, OverLeaves
<1>3. CASE /\ pc' = "drop" /\ queue' = {v \in Videos : local[v] # NoFile}
           /\ UNCHANGED <<video, dropped>>
  <2>1. \A v \in queue' : Arrived(v)'
    BY <1>1, <1>3 DEF DeliveryInv, InHand, Arrived, IsNewest, Whole
  <2>2. InHand'
    BY <1>1, <1>3, <2>1 DEF DeliveryInv, InHand, OnIts
  <2> QED
    BY <1>1, <1>3, <2>2, FilesAlone DEF DeliveryInv, ByPlatform
<1> QED
  BY <1>2, <1>3 DEF RsyncDone

LEMMA DropOriginalStep == DeliveryInv /\ DropOriginal => DeliveryInv'
<1> SUFFICES ASSUME DeliveryInv, DropOriginal PROVE DeliveryInv'
  OBVIOUS
<1>1. pc = "drop" /\ UNCHANGED <<world, now, newest, lib, part, under, share, excused>>
  BY DEF DropOriginal, coded
<1>2. CASE Over /\ UNCHANGED local
  BY <1>1, <1>2, OverLeaves
<1>3. CASE \E v \in queue : /\ local' = [local EXCEPT ![v] = NoFile] /\ queue' = queue \ {v}
                            /\ UNCHANGED <<pc, video, dropped>>
  <2>1. PICK v \in queue : /\ local' = [local EXCEPT ![v] = NoFile] /\ queue' = queue \ {v}
                           /\ UNCHANGED <<pc, video, dropped>>
    BY <1>3
  <2>2. v \in Videos /\ Arrived(v)
    BY <1>1 DEF DeliveryInv, StoreTyped, InHand
  <2>3. \A w \in queue' : local'[w] # NoFile /\ Arrived(w)'
    BY <1>1, <2>1 DEF DeliveryInv, StoreTyped, InHand, Arrived, IsNewest, Whole
  <2>4. InHand'
    BY <1>1, <2>1, <2>3 DEF DeliveryInv, InHand, OnIts
  <2> QED
    BY <1>1, <2>1, <2>2, <2>4, OriginalGoes DEF DeliveryInv, StoreTyped, ByPlatform
<1> QED
  BY <1>2, <1>3 DEF DropOriginal

LEMMA SurroundingsStep ==
  DeliveryInv /\ (ShareGoes \/ ShareComes \/ OthersConnect \/ OthersLeave \/ PasswordChanges) => DeliveryInv'
<1> SUFFICES ASSUME DeliveryInv, ShareGoes \/ ShareComes \/ OthersConnect \/ OthersLeave \/ PasswordChanges
             PROVE  DeliveryInv'
  OBVIOUS
<1>1. CASE ShareGoes
  BY <1>1, Undisturbed DEF ShareGoes, coded, files
<1>2. CASE ShareComes
  BY <1>2, Undisturbed DEF ShareComes, coded, files, run
<1>3. CASE OthersConnect \/ OthersLeave \/ PasswordChanges
  BY <1>3, Undisturbed DEF OthersConnect, OthersLeave, PasswordChanges, coded, files, run
<1> QED
  BY <1>1, <1>2, <1>3

LEMMA DeliveryStep == NasAhead = 0 /\ DeliveryInv /\ [DeliveryNext]_vars => DeliveryInv'
<1> SUFFICES ASSUME NasAhead = 0, DeliveryInv, [DeliveryNext]_vars PROVE DeliveryInv'
  OBVIOUS
<1>1. CASE \E v \in Videos : Encode(v)
  BY <1>1, EncodeStep
<1>2. CASE ShareGoes \/ ShareComes \/ OthersConnect \/ OthersLeave \/ PasswordChanges
  BY <1>2, SurroundingsStep
<1>3. CASE Moving
  BY <1>3, BeginStep, ReachStep, MoveNextStep, CopyStartsStep, CopyEndsStep, CompareStep,
     ReplaceStep, UnlinkStep, FailStep, MountStep, RsyncFileStep, RsyncFailsStep, RsyncDoneStep,
     DropOriginalStep, OverLeaves DEF Moving, MoveOver, coded, files
<1>4. CASE Kill
  BY <1>4, OverLeaves DEF Kill, coded, files
<1>5. CASE VerifyStart \/ \E ok \in BOOLEAN : VerifyConnect(ok) \/ VerifyTry(ok)
  BY <1>5, Undisturbed DEF VerifyStart, VerifyConnect, VerifyTry, coded, files, run
<1>6. CASE UNCHANGED vars
  BY <1>6, Undisturbed DEF vars, coded, files, run
<1> QED
  BY <1>1, <1>2, <1>3, <1>4, <1>5, <1>6 DEF DeliveryNext

\* The last video of a name is never lost: whatever is killed and whenever the share goes,
\* an original leaves only after its copy has arrived, as long as the share's clock is ours.
THEOREM NewestStays == ASSUME NasAhead = 0 PROVE DeliverySpec => []NewestIsKept
<1>1. DeliveryInv /\ [DeliveryNext]_vars => DeliveryInv'
  BY DeliveryStep
<1>2. DeliveryInv => NewestIsKept
  BY DEF DeliveryInv
<1> QED
  BY <1>1, <1>2, DeliveryStarts, PTL DEF DeliverySpec

-------------------------------------------------------------------------------
(* What is at the destination is whole; the clocks do not matter for that. *)
WholeInv ==
  /\ now \in Nat /\ local \in [Videos -> FileRec] /\ lib \in [Videos -> FileRec]
  /\ part \in [Videos -> FileRec]
  /\ \A v \in Videos : local[v].len = local[v].full
  /\ queue \subseteq Videos
  /\ pc \in OnIts => video \in Videos
  /\ pc \in {"compare", "replace"} => part[video].full = local[video].full
  /\ pc = "replace" => part[video].len = local[video].len
  /\ pc \in {"mount", "rsync", "drop"} => ~Windows
  /\ NeverHalfThere

LEMMA WholeStarts == DeliveryInit => WholeInv
BY NoFileIs DEF DeliveryInit, WholeInv, OnIts, NeverHalfThere

LEMMA WholeStep == Windows /\ WholeInv /\ [DeliveryNext]_vars => WholeInv'
<1> SUFFICES ASSUME Windows, WholeInv, [DeliveryNext]_vars PROVE WholeInv'
  OBVIOUS
<1> USE DEF coded, files
<1>1. ASSUME UNCHANGED <<world, now, local, lib, part>>, queue' \subseteq Videos,
             \/ pc' \notin OnIts \/ UNCHANGED <<pc, video>>
             \/ pc' \in {"copy", "unlink"} /\ video' \in Videos,
             pc' \in {"mount", "rsync", "drop"} => ~Windows
      PROVE  WholeInv'
  BY <1>1 DEF WholeInv, OnIts, Windows, NeverHalfThere, Whole
<1>2. ASSUME NEW v \in Videos, Encode(v) PROVE WholeInv'
  <2>1. PICK len \in 1..MaxLength :
          local' = [local EXCEPT ![v] = [ver |-> now', len |-> len, full |-> len, time |-> now']]
    BY <1>2 DEF Encode
  <2> DEFINE f == [ver |-> now', len |-> len, full |-> len, time |-> now']
  <2>2. now' \in Nat /\ len \in Nat
    BY <1>2, DeliveryAssumption DEF Encode, WholeInv
  <2>3. f \in FileRec /\ f.len = f.full
    BY <2>2 DEF FileRec
  <2> HIDE DEF f
  <2>4. local' = [local EXCEPT ![v] = f]
    BY <2>1 DEF f
  <2>5. local' \in [Videos -> FileRec] /\ \A w \in Videos : local'[w].len = local'[w].full
    BY <2>3, <2>4 DEF WholeInv
  <2> QED
    BY <1>2, <2>2, <2>5 DEF Encode, run, WholeInv, OnIts, Windows, NeverHalfThere, Whole
<1>3. CASE ShareGoes \/ ShareComes \/ OthersConnect \/ OthersLeave \/ PasswordChanges \/ Kill
  BY <1>1, <1>3 DEF ShareGoes, ShareComes, OthersConnect, OthersLeave, PasswordChanges, Kill, Over, run, WholeInv, OnIts
<1>4. CASE Begin \/ ReachAsWeAre \/ ReachConnecting \/ MoveOver
  BY <1>1, <1>4 DEF Begin, ReachAsWeAre, ReachConnecting, MoveOver, Over, WholeInv, OnIts
<1>5. CASE MoveNext
  BY <1>1, <1>5 DEF MoveNext, WholeInv
<1>6. CASE LookAtMount \/ RsyncDone
  BY <1>1, <1>6 DEF LookAtMount, RsyncDone, Over, WholeInv, OnIts
<1>7. ASSUME pc \in OnIts, NEW f \in FileRec, part' = [part EXCEPT ![video] = f],
             UNCHANGED <<world, now, local, lib, queue>>,
             \/ pc' \in {"copying", "move"}
             \/ /\ pc' \in {"compare", "replace"} /\ f.full = local[video].full
                /\ pc' = "replace" => f.len = local[video].len,
             video' = video \/ pc' = "move"
      PROVE  WholeInv'
  <2>1. video \in Videos /\ part' \in [Videos -> FileRec] /\ part'[video] = f
    BY <1>7 DEF WholeInv
  <2> QED
    BY <1>7, <2>1 DEF WholeInv, OnIts, Windows, NeverHalfThere, Whole
<1>8. CASE CopyStarts
  <2>1. video \in Videos /\ local[video] \in FileRec
    BY <1>8 DEF CopyStarts, WholeInv, OnIts
  <2>2. [local[video] EXCEPT !.len = 0] \in FileRec
    BY <2>1, OtherLength
  <2> QED
    BY <1>7, <1>8, <2>2 DEF CopyStarts, OnIts
<1>9. CASE CopyEnds
  <2>1. video \in Videos /\ local[video] \in FileRec /\ now + NasAhead \in Nat
    BY <1>9, DeliveryAssumption DEF CopyEnds, WholeInv, OnIts
  <2>2. PICK len \in 0..local[video].len :
          part' = [part EXCEPT ![video] = [local[video] EXCEPT !.len = len, !.time = now + NasAhead]]
    BY <1>9 DEF CopyEnds
  <2> DEFINE e == [local[video] EXCEPT !.len = len]
             f == [e EXCEPT !.time = now + NasAhead]
  <2>3. len \in Nat
    BY <2>1 DEF FileRec
  <2>4. e \in FileRec /\ e.full = local[video].full
    BY <2>1, <2>3, OtherLength
  <2>5. part' = [part EXCEPT ![video] = f]
    BY <2>2
  <2> HIDE DEF e
  <2>6. f \in FileRec /\ f.full = local[video].full
    BY <2>1, <2>4, OtherTime
  <2> HIDE DEF f
  <2> QED
    BY <1>7, <1>9, <2>5, <2>6 DEF CopyEnds, OnIts
<1>10. CASE Compare
  <2>1. video \in Videos /\ local[video] \in FileRec /\ part[video] \in FileRec
        /\ part[video].full = local[video].full /\ part[video].len = local[video].len
    BY <1>10 DEF Compare, WholeInv, OnIts
  <2>2. local[video].time \in Nat
    BY <2>1 DEF FileRec
  <2> DEFINE f == [part[video] EXCEPT !.time = local[video].time]
  <2>3. f \in FileRec /\ f.full = part[video].full /\ f.len = part[video].len
    BY <2>1, <2>2, OtherTime
  <2> HIDE DEF f
  <2>4. part' = [part EXCEPT ![video] = f] \/ part' = [part EXCEPT ![video] = part[video]]
    BY <1>10, <2>1 DEF Compare, f, WholeInv
  <2> QED
    BY <1>7, <1>10, <2>1, <2>3, <2>4 DEF Compare, OnIts
<1>11. CASE Fail
  <2>1. pc \in OnIts /\ pc' = "move" /\ UNCHANGED <<world, now, local, lib, queue>>
    BY <1>11 DEF Fail, OnIts
  <2>2. part' = part \/ part' = [part EXCEPT ![video] = NoFile]
    BY <1>11 DEF Fail, DropPart
  <2>3. CASE part' = part
    BY <1>1, <2>1, <2>3 DEF WholeInv, OnIts
  <2>4. CASE part' = [part EXCEPT ![video] = NoFile]
    BY <1>7, <2>1, <2>4, NoFileIs
  <2> QED
    BY <2>2, <2>3, <2>4
<1>12. CASE Replace
  <2>1. video \in Videos /\ part[video] \in FileRec /\ part[video].full = local[video].full
        /\ part[video].len = local[video].len /\ local[video].len = local[video].full
    BY <1>12 DEF Replace, WholeInv, OnIts
  <2>2. /\ lib' \in [Videos -> FileRec] /\ part' \in [Videos -> FileRec]
        /\ lib'[video] = part[video] /\ \A w \in Videos \ {video} : lib'[w] = lib[w]
    BY <1>12, <2>1, NoFileIs DEF Replace, WholeInv
  <2>3. NeverHalfThere'
    BY <1>12, <2>1, <2>2 DEF Replace, WholeInv, Windows, NeverHalfThere, Whole
  <2> QED
    BY <1>12, <2>1, <2>2, <2>3 DEF Replace, WholeInv, OnIts, Windows
<1>13. CASE Unlink
  <2>1. local' \in [Videos -> FileRec] /\ \A v \in Videos : local'[v].len = local'[v].full
    BY <1>13, NoFileIs DEF Unlink, WholeInv
  <2> QED
    BY <1>13, <2>1 DEF Unlink, WholeInv, OnIts, Windows, NeverHalfThere, Whole
<1>14. CASE RsyncFile \/ RsyncFails \/ DropOriginal
  BY <1>14 DEF RsyncFile, RsyncFails, DropOriginal, WholeInv
<1>15. CASE VerifyStart \/ \E ok \in BOOLEAN : VerifyConnect(ok) \/ VerifyTry(ok)
  BY <1>1, <1>15 DEF VerifyStart, VerifyConnect, VerifyTry, run, WholeInv
<1>16. CASE UNCHANGED vars
  BY <1>1, <1>16 DEF vars, run, WholeInv
<1> QED
  BY <1>2, <1>3, <1>4, <1>5, <1>6, <1>8, <1>9, <1>10, <1>11, <1>12, <1>13, <1>14, <1>15, <1>16
  DEF DeliveryNext, Moving

LEMMA PlatformStays == [DeliveryNext]_vars => UNCHANGED world
BY DEF DeliveryNext, Encode, ShareGoes, ShareComes, OthersConnect, OthersLeave, PasswordChanges, Moving, Kill,
   VerifyStart, VerifyConnect, VerifyTry, Begin, ReachAsWeAre, ReachConnecting, MoveNext,
   CopyStarts, CopyEnds, Compare, Replace, Unlink, Fail, MoveOver, LookAtMount, RsyncFile,
   RsyncFails, RsyncDone, DropOriginal, vars

\* "The destination never holds a partial file under a name anything will read":
\* whatever is killed, wherever the copy stops short, and whatever the clocks say.
THEOREM NothingHalfThere == DeliverySpec => []NeverHalfThere
<1> DEFINE Inv == Windows => WholeInv
<1>1. DeliveryInit => Inv
  BY WholeStarts
<1>2. Inv /\ [DeliveryNext]_vars => Inv'
  BY WholeStep, PlatformStays DEF Windows
<1>3. Inv => NeverHalfThere
  BY DEF WholeInv, NeverHalfThere
<1> QED
  BY <1>1, <1>2, <1>3, PTL DEF DeliverySpec

-------------------------------------------------------------------------------
(* The checks of the share.                                                *)

\* What the credentials are asked over is a session that nobody else has.
SessionInv ==
  /\ world \in Linux \cup OnWindows
  /\ check # "idle" => Windows
  /\ alone /\ check # "idle" => session \in {"none", "us"}
  /\ alone /\ check = "connected" => session = "us"

LEMMA ConnectsAsUs ==
  ASSUME NEW s \in {"none", "us"}
  PROVE  /\ Connect(s).session \in {"none", "us"}
         /\ Connect(s).made = "yes" => Connect(s).session = "us"
         /\ s = "us" => Connect(s).session = "us"
BY DEF Connect

LEMMA SessionStep == SessionInv /\ [DeliveryNext]_vars => SessionInv'
<1> SUFFICES ASSUME SessionInv, [DeliveryNext]_vars PROVE SessionInv'
  OBVIOUS
<1>1. world' = world
  BY PlatformStays
<1>2. CASE UNCHANGED <<session, check, alone>>
  BY <1>1, <1>2 DEF SessionInv, Windows
<1>3. CASE OthersConnect \/ OthersLeave \/ PasswordChanges
  BY <1>1, <1>3 DEF OthersConnect, OthersLeave, PasswordChanges, SessionInv, Windows, checks
<1>4. CASE ReachConnecting
  <2>1. session' = Connect(session).session /\ UNCHANGED <<check, alone>>
    BY <1>4 DEF ReachConnecting, checks
  <2> QED
    BY <1>1, <2>1, ConnectsAsUs DEF SessionInv, Windows
<1>5. CASE VerifyStart
  BY <1>1, <1>5 DEF VerifyStart, SessionInv, Windows
<1>6. ASSUME NEW ok \in BOOLEAN, VerifyConnect(ok) PROVE SessionInv'
  <2>1. /\ check = "dropped" /\ alone' = alone
        /\ ok = (Connect(session).made = "yes")
        /\ IF ok THEN check' = "connected" /\ session' = Connect(session).session
           ELSE check' = "idle" /\ session' \in Disconnected(Connect(session).session)
    BY <1>6 DEF VerifyConnect
  <2>2. CASE ok
    BY <1>1, <2>1, <2>2, ConnectsAsUs DEF SessionInv, Windows
  <2>3. CASE ~ok
    BY <1>1, <2>1, <2>3 DEF SessionInv, Windows
  <2> QED
    BY <2>2, <2>3
<1>7. ASSUME NEW ok \in BOOLEAN, VerifyTry(ok) PROVE SessionInv'
  BY <1>1, <1>7 DEF VerifyTry, SessionInv, Windows
<1> QED
  BY <1>2, <1>3, <1>4, <1>5, <1>6, <1>7
  DEF DeliveryNext, Encode, ShareGoes, ShareComes, Moving, Kill,
     Begin, ReachAsWeAre, MoveNext, account, checks,
     CopyStarts, CopyEnds, Compare, Replace, Unlink, Fail, MoveOver, LookAtMount, RsyncFile,
     RsyncFails, RsyncDone, DropOriginal, vars

LEMMA SessionHolds == DeliverySpec => []SessionInv
<1>1. DeliveryInit => SessionInv
  BY DEF DeliveryInit, SessionInv
<1> QED
  BY <1>1, SessionStep, PTL DEF DeliverySpec

\* Of any share, the check says of the credentials what they may do, as far as nobody
\* connects meanwhile.
THEOREM CredentialsAnswer == DeliverySpec => CredentialsVerified
<1>1. ASSUME SessionInv, NEW ok \in BOOLEAN, VerifyTry(ok), alone
      PROVE  ok = (share = "up" /\ world.creds = "write")
  <2>1. session = "us" /\ ok = MayWrite(session)
    BY <1>1 DEF VerifyTry, TryDestination, SessionInv
  <2>2. MayWrite("us") <=> share = "up" /\ world.creds = "write"
    BY DEF MayWrite
  <2>3. MayWrite("us") \in BOOLEAN
    BY Zenon DEF MayWrite
  <2> QED
    BY <2>1, <2>2, <2>3, Zenon
<1>2. SessionInv =>
        [\A ok \in BOOLEAN : VerifyTry(ok) /\ alone =>
           ok = (share = "up" /\ world.creds = "write")]_vars
  BY <1>1
<1> QED
  BY <1>2, SessionHolds, PTL DEF CredentialsVerified

LEMMA ThreeSetsOfFlags == Len(Flags) = 3
BY DEF Flags

\* Of the flags that a share accepts, the first is found.
LEMMA FirstAccepted ==
  ASSUME NEW A \in {1..3, {2, 3}, {2}}
  PROVE  LET first == CHOOSE i \in A : \A j \in A : i <= j
         IN  first \in A /\ \A j \in A : first <= j
<1>1. \E i \in A : \A j \in A : i <= j
  <2>1. CASE A = 1..3
    <3>1. 1 \in A /\ \A j \in A : 1 <= j
      BY <2>1
    <3> QED
      BY <3>1
  <2>2. CASE A = {2, 3} \/ A = {2}
    <3>1. 2 \in A /\ \A j \in A : 2 <= j
      BY <2>2
    <3> QED
      BY <3>1
  <2> QED
    BY <2>1, <2>2
<1> QED
  BY <1>1

\* Of any Linux share the probe tells the first set of flags that works there, or that
\* none does, or that it cannot tell.
THEOREM ProbeTellsTheTruth == DeliverySpec => []RsyncProbeHonest
<1>1. ASSUME SessionInv, ~Windows, NEW caller \in {"root", "service", "user"},
             NEW runuser \in BOOLEAN, NEW tools \in BOOLEAN,
             ProbeFlags(caller, runuser, tools) # Untested
      PROVE  LET flags == ProbeFlags(caller, runuser, tools)
             IN  /\ flags # 0 <=> world.accepts # {}
                 /\ flags # 0 => flags \in world.accepts /\ flags - 1 \notin world.accepts
  <2> DEFINE Try(i)  == TryRsync(i, caller, runuser, tools)
             stops   == {i \in 1..Len(Flags) : Try(i) # "no"}
             first   == CHOOSE i \in stops : \A j \in stops : i <= j
  <2>1. ProbeFlags(caller, runuser, tools)
          = IF stops = {} THEN 0 ELSE IF Try(first) = "yes" THEN first ELSE Untested
    BY DEF ProbeFlags
  <2>2. world.accepts \in {1..3, {2, 3}, {2}, {}}
    BY <1>1 DEF SessionInv, Linux, OnWindows, Windows
  <2>3. CanProbeAs(caller, runuser) /\ tools
    BY <1>1, <2>1, ThreeSetsOfFlags DEF TryRsync
  <2>4. \A i : Try(i) = IF i \in world.accepts THEN "yes" ELSE "no"
    BY <2>3 DEF TryRsync
  <2>5. stops = world.accepts
    BY <2>2, <2>4, ThreeSetsOfFlags
  <2> HIDE DEF Try, stops
  <2>6. CASE world.accepts = {}
    BY <2>1, <2>5, <2>6
  <2>7. CASE world.accepts # {}
    <3>1. first \in world.accepts /\ \A j \in world.accepts : first <= j
      BY <2>2, <2>5, <2>7, FirstAccepted
    <3>2. first \in 1..3
      BY <2>2, <3>1
    <3> HIDE DEF first
    <3>3. first - 1 \notin world.accepts
      BY <3>1, <3>2
    <3>4. ProbeFlags(caller, runuser, tools) = first
      BY <2>1, <2>4, <2>5, <2>7, <3>1
    <3> QED
      BY <2>7, <3>1, <3>2, <3>3, <3>4
  <2> QED
    BY <2>6, <2>7
<1>2. SessionInv => RsyncProbeHonest
  BY <1>1 DEF RsyncProbeHonest
<1> QED
  BY <1>2, SessionHolds, PTL

-------------------------------------------------------------------------------
(* The run history.                                                        *)
Nights ==
  [at : {"days"}, jobs : SUBSET CameraDays, rows : SUBSET CameraDays, none : SUBSET CameraDays]

HistoryTyped ==
  /\ today \in Nat \ {0} /\ listed \subseteq AllCameras /\ folders \subseteq CameraDays
  /\ runs \in Seq(SUBSET CameraDays)
  /\ night.at = "days" => night \in Nights

\* What the run in progress has reported so far and will write, or lose.
Rows == IF night.at = "days" THEN night.rows ELSE {}

\* A camera-day that ever had frames, or was told of, is on the disk, in the
\* record, in hand, or among those whose record was lost.
Remembered == shot \cup told \subseteq folders \cup Reported \cup lost \cup Rows

\* Who is about to be reported without frames was settled before the run began.
RowsAreTrue ==
  night.at = "days" =>
    \A cd \in night.none : DayOf(cd) < today /\ (cd \in shot \cup told => cd \in lost)

HistoryInv == HistoryTyped /\ Remembered /\ RowsAreTrue

LEMMA HistoryStarts == HistoryInit => HistoryInv
<1> SUFFICES ASSUME HistoryInit PROVE HistoryInv
  OBVIOUS
<1>1. runs \in Seq(SUBSET CameraDays)
  BY EmptySeq DEF HistoryInit
<1> QED
  BY <1>1 DEF HistoryInit, HistoryInv, HistoryTyped, NoRun, Remembered, RowsAreTrue

\* Whatever becomes of encode.json, what it held and what was to be added is in it
\* or counted as lost.
LEMMA RunsWritten ==
  ASSUME HistoryTyped, NEW rows \in SUBSET CameraDays, NEW readable \in BOOLEAN,
         NEW writable \in BOOLEAN, WriteRuns(rows, readable, writable)
  PROVE  /\ runs' \in Seq(SUBSET CameraDays) /\ lost \subseteq lost'
         /\ Reported \cup rows \subseteq Reported' \cup lost'
<1> DEFINE old  == IF readable THEN runs ELSE <<>>
           all  == <<rows>> \o old
           n    == IF Len(old) < MaxRuns THEN Len(old) + 1 ELSE MaxRuns
           next == SubSeq(all, 1, n)
<1>1. old \in Seq(SUBSET CameraDays) /\ Len(old) \in Nat
  BY EmptySeq DEF HistoryTyped
<1>2. all \in Seq(SUBSET CameraDays) /\ Len(all) = Len(old) + 1 /\ all[1] = rows
  BY <1>1
<1>3. n \in 1..Len(all)
  BY <1>1, <1>2, RunHistoryAssumption
<1> HIDE DEF old, all, n
<1>4. next \in Seq(SUBSET CameraDays) /\ Len(next) = n /\ next[1] = rows
  BY <1>2, <1>3
<1>5. CASE writable
  <2>1. runs' = next /\ lost' = lost \cup (Reported \ UNION {next[i] : i \in 1..Len(next)})
    BY <1>5 DEF WriteRuns, next, n, all, old
  <2>2. Reported' = UNION {next[i] : i \in 1..Len(next)}
    BY <2>1 DEF Reported
  <2>3. rows \subseteq Reported'
    BY <1>3, <1>4, <2>2
  <2> QED
    BY <1>4, <2>1, <2>2, <2>3
<1>6. CASE ~writable
  <2>1. runs' = runs /\ lost' = lost \cup (rows \ Reported)
    BY <1>6 DEF WriteRuns
  <2> QED
    BY <2>1 DEF HistoryTyped, Reported
<1> QED
  BY <1>5, <1>6

LEMMA ShootStep == ASSUME HistoryInv, NEW c \in AllCameras, Shoot(c) PROVE HistoryInv'
<1>1. <<c, today>> \in CameraDays /\ DayOf(<<c, today>>) = today
  BY DEF Shoot, HistoryInv, HistoryTyped, CameraDays, DayOf
<1>2. HistoryTyped' /\ Remembered'
  BY <1>1 DEF Shoot, HistoryInv, HistoryTyped, Remembered, Reported, Rows
<1>3. RowsAreTrue'
  BY <1>1 DEF Shoot, HistoryInv, HistoryTyped, RowsAreTrue
<1> QED
  BY <1>2, <1>3 DEF HistoryInv

LEMMA StartRunStep ==
  ASSUME HistoryInv, NEW date \in 0..Days, NEW force \in BOOLEAN, StartRun(date, force)
  PROVE  HistoryInv'
<1> DEFINE jobs == Pending(date, force)
           none == IF date # 0 THEN {} ELSE Missing(jobs)
<1>1. night = NoRun /\ UNCHANGED <<listed, today, folders, marked, runs, shot, told, lost>>
  BY DEF StartRun
<1>2. jobs \subseteq folders /\ (date = 0 => \A cd \in jobs : DayOf(cd) < today)
  BY DEF Pending
<1>3. \A cd \in jobs : cd \in CameraDays /\ DayOf(cd) \in 1..Days
  BY <1>2 DEF HistoryInv, HistoryTyped, CameraDays, DayOf
<1>4. \A cd \in Missing(jobs) : \E e \in jobs : DayOf(cd) = DayOf(e) /\ cd \in CameraDays
  BY <1>3 DEF Missing, Dates, HistoryInv, HistoryTyped, CameraDays, DayOf
<1>5. none \subseteq CameraDays /\ \A cd \in none : DayOf(cd) < today
  BY <1>2, <1>4
<1>6. \A cd \in none : cd \notin folders /\ cd \notin Reported
  BY DEF Missing
<1> HIDE DEF jobs, none
<1>7. \/ night' = [at |-> "idle", date |-> date, found |-> today]
      \/ night' = [at |-> "days", jobs |-> jobs, rows |-> {}, none |-> none]
  BY DEF StartRun, jobs, none
<1>8. HistoryTyped'
  BY <1>1, <1>2, <1>3, <1>5, <1>7 DEF HistoryInv, HistoryTyped, Nights
<1>9. Remembered'
  BY <1>1, <1>7 DEF HistoryInv, Remembered, Rows, NoRun, Reported
<1>10. RowsAreTrue'
  BY <1>1, <1>5, <1>6, <1>7 DEF HistoryInv, Remembered, Rows, NoRun, RowsAreTrue
<1> QED
  BY <1>8, <1>9, <1>10 DEF HistoryInv

LEMMA EncodeDayStep ==
  ASSUME HistoryInv, NEW cd \in CameraDays, NEW ok \in BOOLEAN, NEW delete \in BOOLEAN,
         EncodeDay(cd, ok, delete)
  PROVE  HistoryInv'
<1>1. /\ night.at = "days" /\ night \in Nights
      /\ night' = [night EXCEPT !.jobs = @ \ {cd}, !.rows = @ \cup {cd}]
      /\ folders' \in {folders, folders \ {cd}}
      /\ UNCHANGED <<listed, today, runs, shot, told, lost>>
  BY DEF EncodeDay, HistoryInv, HistoryTyped
<1>2. /\ night' \in Nights /\ night'.at = "days" /\ night'.none = night.none
      /\ night'.rows = night.rows \cup {cd}
  BY <1>1 DEF Nights
<1>3. HistoryTyped'
  BY <1>1, <1>2 DEF HistoryInv, HistoryTyped
<1>4. Remembered'
  BY <1>1, <1>2 DEF HistoryInv, Remembered, Rows, Reported
<1>5. RowsAreTrue'
  BY <1>1, <1>2 DEF HistoryInv, RowsAreTrue
<1> QED
  BY <1>3, <1>4, <1>5 DEF HistoryInv

\* The ways a run comes to its end.
LEMMA RunEnds ==
  ASSUME HistoryInv, UNCHANGED <<listed, today, folders, shot>>, night' = NoRun,
         \/ /\ UNCHANGED told
            /\ \/ lost' = lost \cup (Rows \ Reported) /\ UNCHANGED runs
               \/ \E readable, writable \in BOOLEAN : WriteRuns(Rows, readable, writable)
         \/ /\ night.at = "days" /\ told' = told \cup night.none
            /\ \E readable, writable \in BOOLEAN :
                 WriteRuns(Rows \cup night.none, readable, writable)
  PROVE  HistoryInv'
<1>1. Rows \in SUBSET CameraDays /\ (night.at = "days" => night.none \in SUBSET CameraDays)
  BY DEF HistoryInv, HistoryTyped, Rows, Nights
<1>2. /\ runs' \in Seq(SUBSET CameraDays) /\ lost \subseteq lost'
      /\ Reported \cup Rows \subseteq Reported' \cup lost'
      /\ told' \subseteq told \cup Reported' \cup lost'
  <2>1. CASE UNCHANGED told /\ lost' = lost \cup (Rows \ Reported) /\ UNCHANGED runs
    BY <2>1 DEF HistoryInv, HistoryTyped, Reported
  <2>2. CASE UNCHANGED told /\ \E readable, writable \in BOOLEAN : WriteRuns(Rows, readable, writable)
    BY <1>1, <2>2, RunsWritten DEF HistoryInv
  <2>3. CASE /\ night.at = "days" /\ told' = told \cup night.none
             /\ \E readable, writable \in BOOLEAN :
                  WriteRuns(Rows \cup night.none, readable, writable)
    <3>1. Rows \cup night.none \in SUBSET CameraDays
      BY <1>1, <2>3
    <3> QED
      BY <2>3, <3>1, RunsWritten DEF HistoryInv
  <2> QED
    BY <2>1, <2>2, <2>3
<1>3. night'.at = "none"
  BY DEF NoRun
<1> QED
  BY <1>2, <1>3 DEF HistoryInv, HistoryTyped, Remembered, Rows, RowsAreTrue

LEMMA HistoryStep == HistoryInv /\ [HistoryNext]_historyVars => HistoryInv'
<1> SUFFICES ASSUME HistoryInv, [HistoryNext]_historyVars PROVE HistoryInv'
  OBVIOUS
<1>1. CASE \E c \in AllCameras : Shoot(c)
  BY <1>1, ShootStep
<1>2. CASE Midnight
  <2>1. night.at = "days" => \A cd \in night.none : DayOf(cd) \in Nat
    BY DEF HistoryInv, HistoryTyped, Nights, CameraDays, DayOf
  <2>2. HistoryTyped' /\ Remembered'
    BY <1>2 DEF Midnight, HistoryInv, HistoryTyped, Remembered, Reported, Rows
  <2>3. RowsAreTrue'
    BY <1>2, <2>1 DEF Midnight, HistoryInv, HistoryTyped, RowsAreTrue
  <2> QED
    BY <2>2, <2>3 DEF HistoryInv
<1>3. CASE EnableCamera
  BY <1>3 DEF EnableCamera, HistoryInv, HistoryTyped, Remembered, Reported, Rows, RowsAreTrue
<1>4. CASE KillRun
  BY <1>4, RunEnds DEF KillRun, Rows
<1>5. CASE \E date \in 0..Days, force \in BOOLEAN : StartRun(date, force)
  BY <1>5, StartRunStep
<1>6. CASE \E cd \in CameraDays, ok, delete \in BOOLEAN : EncodeDay(cd, ok, delete)
  BY <1>6, EncodeDayStep
<1>7. ASSUME NEW readable \in BOOLEAN, NEW writable \in BOOLEAN, EndRun(readable, writable)
      PROVE  HistoryInv'
  BY <1>7, RunEnds DEF EndRun, Rows
<1>8. ASSUME NEW readable \in BOOLEAN, NEW writable \in BOOLEAN, Abort(readable, writable)
      PROVE  HistoryInv'
  BY <1>8, RunEnds DEF Abort, Rows
<1>9. ASSUME NEW readable \in BOOLEAN, NEW writable \in BOOLEAN, EndIdleRun(readable, writable)
      PROVE  HistoryInv'
  BY <1>9, RunEnds DEF EndIdleRun, Rows
<1>10. CASE UNCHANGED historyVars
  BY <1>10 DEF historyVars, HistoryInv, HistoryTyped, Remembered, Reported, Rows, RowsAreTrue
<1> QED
  BY <1>1, <1>2, <1>3, <1>4, <1>5, <1>6, <1>7, <1>8, <1>9, <1>10 DEF HistoryNext

\* A camera is reported without frames for a day on which it had none, and once, for any
\* number of cameras, days and runs remembered; a record that was lost is the exception.
THEOREM NoFramesRowsAreTrue == HistorySpec => NoFramesIsTrue
<1>1. HistoryInv /\ [HistoryNext]_historyVars
        => (told' # told => (night.none \cap (shot \cup told)) \subseteq lost)
  BY DEF HistoryNext, Shoot, Midnight, EnableCamera, KillRun, StartRun, EncodeDay, EndRun, Abort,
     EndIdleRun, historyVars, HistoryInv, RowsAreTrue
<1>2. HistoryInv /\ [HistoryNext]_historyVars => HistoryInv'
  BY HistoryStep
<1> QED
  BY <1>1, <1>2, HistoryStarts, PTL DEF HistorySpec, NoFramesIsTrue

\* A set of days that is not empty has a last one.
LEMMA LastDay ==
  ASSUME NEW S, S \subseteq 1..Days, S # {}
  PROVE  \E d \in S : \A e \in S : e <= d
<1>1. Days \in Nat
  BY RunHistoryAssumption
<1>2. IsWellFoundedOn(OpToRel(<, Nat), Nat)
  BY NatLessThanWellFounded
<1> DEFINE T == {n \in Nat : Days - n \in S}
<1>3. T \subseteq Nat /\ T # {}
  <2>1. PICK s \in S : TRUE
    OBVIOUS
  <2>2. Days - s \in Nat /\ Days - (Days - s) = s
    BY <1>1, <2>1
  <2> QED
    BY <2>1, <2>2
<1>4. PICK n \in T : \A m \in T : ~(<<m, n>> \in OpToRel(<, Nat))
  <2> HIDE DEF T
  <2> QED
   BY ONLY <1>2, <1>3, WFMin
<1>5. \A m \in T : ~(m < n)
  BY <1>3, <1>4 DEF OpToRel
<1>6. \A e \in S : e <= Days - n
  <2> SUFFICES ASSUME NEW e \in S PROVE e <= Days - n
    OBVIOUS
  <2>1. Days - e \in T
    BY <1>1
  <2>2. ~(Days - e < n)
    BY <2>1, <1>5
  <2>3. e \in 1..Days
    OBVIOUS
  <2>4. n \in Nat
    OBVIOUS
  <2> QED
    BY <2>2, <2>3, <2>4, <1>1
<1>7. Days - n \in S
  BY <1>4
<1> QED
  BY <1>6, <1>7

\* The newest of the days that wait is within any cap on them.
LEMMA NothingPending ==
  ASSUME HistoryTyped, NEW force \in BOOLEAN, Pending(0, force) = {}
  PROVE  \A cd \in folders : (CameraOf(cd) \in listed /\ DayOf(cd) < today) => cd \in marked
<1> DEFINE old     == {cd \in folders : /\ CameraOf(cd) \in listed /\ DayOf(cd) < today
                                        /\ force \/ cd \notin marked}
           kept(d) == MaxBacklog = 0 \/ Cardinality({e \in Dates(old) : e > d}) < MaxBacklog
<1>1. Pending(0, force) = {cd \in old : kept(DayOf(cd))}
  BY DEF Pending
<1>2. SUFFICES ASSUME old # {} PROVE FALSE
  OBVIOUS
<1>3. Dates(old) \subseteq 1..Days /\ Dates(old) # {}
  BY <1>2 DEF HistoryTyped, CameraDays, DayOf, Dates
<1>4. PICK d \in Dates(old) : \A e \in Dates(old) : e <= d
  BY <1>3, LastDay
<1>5. PICK cd \in old : DayOf(cd) = d
  BY <1>4 DEF Dates
<1>6. {e \in Dates(old) : e > d} = {}
  <2>1. \A e \in Dates(old) : e \in Int /\ e <= d
    BY <1>3, <1>4, RunHistoryAssumption
  <2> HIDE DEF old
  <2> QED
    BY <2>1
<1>7. Cardinality({e \in Dates(old) : e > d}) = 0
  BY <1>6, FS_EmptySet
<1>8. kept(d)
  BY <1>7, RunHistoryAssumption
<1> HIDE DEF old, kept
<1> QED
  BY <1>1, <1>5, <1>8

\* A run with nothing to do found everything before its day encoded; it stays so until
\* the next midnight.
IdleInv ==
  night.at = "idle" =>
    /\ night.date \in 0..Days /\ night.found \in Nat /\ night.found <= today
    /\ night.date = 0 /\ night.found = today =>
         \A cd \in folders : (CameraOf(cd) \in listed /\ DayOf(cd) < today) => cd \in marked

LEMMA IdleStep == HistoryInv /\ IdleInv /\ [HistoryNext]_historyVars => IdleInv'
<1> SUFFICES ASSUME HistoryInv, IdleInv, [HistoryNext]_historyVars PROVE IdleInv'
  OBVIOUS
<1>1. today \in Nat /\ NoRun.at # "idle"
  BY DEF HistoryInv, HistoryTyped, NoRun
<1>2. CASE \E c \in AllCameras : Shoot(c)
  <2>1. PICK c \in AllCameras : Shoot(c)
    BY <1>2
  <2>2. DayOf(<<c, today>>) = today
    BY DEF DayOf
  <2> QED
    BY <1>1, <2>1, <2>2 DEF Shoot, IdleInv
<1>3. CASE Midnight
  BY <1>1, <1>3 DEF Midnight, IdleInv
<1>4. CASE EnableCamera \/ KillRun
  BY <1>1, <1>4 DEF EnableCamera, KillRun, IdleInv
<1>5. ASSUME NEW date \in 0..Days, NEW force \in BOOLEAN, StartRun(date, force)
      PROVE  IdleInv'
  <2>1. UNCHANGED <<listed, today, folders, marked>>
    BY <1>5 DEF StartRun
  <2>2. CASE Pending(date, force) = {}
    <3>1. night' = [at |-> "idle", date |-> date, found |-> today]
      BY <1>5, <2>2 DEF StartRun
    <3> QED
      BY <1>1, <2>1, <2>2, <3>1, NothingPending DEF HistoryInv, IdleInv
  <2>3. CASE Pending(date, force) # {}
    <3>1. night'.at = "days"
      BY <1>5, <2>3 DEF StartRun
    <3> QED
      BY <3>1 DEF IdleInv
  <2> QED
    BY <2>2, <2>3
<1>6. ASSUME NEW cd \in CameraDays, NEW ok \in BOOLEAN, NEW delete \in BOOLEAN,
             EncodeDay(cd, ok, delete)
      PROVE  IdleInv'
  <2>1. night'.at = "days"
    BY <1>6 DEF EncodeDay, HistoryInv, HistoryTyped, Nights
  <2> QED
    BY <2>1 DEF IdleInv
<1>7. ASSUME NEW readable \in BOOLEAN, NEW writable \in BOOLEAN,
             EndRun(readable, writable) \/ Abort(readable, writable) \/ EndIdleRun(readable, writable)
      PROVE  IdleInv'
  BY <1>1, <1>7 DEF EndRun, Abort, EndIdleRun, IdleInv
<1>8. CASE UNCHANGED historyVars
  BY <1>8 DEF historyVars, IdleInv
<1> QED
  BY <1>2, <1>3, <1>4, <1>5, <1>6, <1>7, <1>8 DEF HistoryNext

\* "Everything is encoded", for any number of cameras and days and any cap on the
\* backlog, is only said when it is so.
THEOREM AllEncodedIsTrue == HistorySpec => []IdleAnswerTrue
<1>1. HistoryInit => IdleInv
  BY DEF HistoryInit, NoRun, IdleInv
<1>2. IdleInv => IdleAnswerTrue
  BY DEF IdleInv, IdleAnswerTrue, Answer
<1>3. HistoryInv /\ [HistoryNext]_historyVars => HistoryInv'
  BY HistoryStep
<1> QED
  BY <1>1, <1>2, <1>3, HistoryStarts, IdleStep, PTL DEF HistorySpec
===============================================================================
