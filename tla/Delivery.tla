------------------------------- MODULE Delivery -------------------------------
(***************************************************************************)
(* How a finished video leaves video_output (scripts/timelapse_encode.py,  *)
(* transfer): by rsync to a mounted share on Linux, by copy, compare,      *)
(* rename and delete on Windows, where the share may have to be connected  *)
(* to first (connect_share in scripts/timelapse_platform.py).  A run may   *)
(* be killed and the share may go away between any two steps.  Beside the  *)
(* run there is the checker, of the wizard and the pre-flight, that asks   *)
(* whether the credentials are good and whether rsync will work.           *)
(***************************************************************************)
EXTENDS Integers, Sequences, FiniteSets

CONSTANTS
  Videos,       \* the names of videos
  MaxEncodes,   \* bound: the videos encoded in all, a name again with --force
  MaxLength,    \* bound: a video is 1..MaxLength long; anything less is a part of it
  Slack,        \* MTIME_SLACK, two seconds; an encode takes longer
  NasAhead      \* how far the clock of the share is ahead of ours

ASSUME DeliveryAssumption ==
  /\ MaxEncodes \in Nat /\ MaxLength \in Nat \ {0}
  /\ Slack \in Nat /\ NasAhead \in Nat

NoFile == [ver |-> 0, len |-> 0, full |-> 0, time |-> 0]
NoVideo == "none"
Untested == 99

VARIABLES
  world,    \* what no action changes: the platform, the settings, the accounts
  now,      \* our clock: it advances by the length of the encodes
  newest,   \* history: of each name, the last video encoded
  local,    \* of each name, the file in video_output
  lib,      \* ... the file at the destination
  part,     \* ... the <name>.part beside it
  under,    \* ... the file in the directory that an unmounted share lays bare
  share,    \* "up" while the share is mounted, or answers
  session,  \* who this logon session is at the share: none, us, another, or
            \* "old": us, by a password that has changed since
  probe,    \* whose old fixed-name probe file lies at the destination
  pc,       \* of the transfer
  queue,    \* the videos it has still to move
  video,    \* the one it is moving
  dropped,  \* history: the share went away in this run
  excused,  \* history: the videos a run laid under a share that went away
  check,    \* of the check of the credentials: idle, dropped, connected
  alone     \* history: no connection but the check's own was there during it

coded   == <<now, newest>>
files   == <<local, lib, part, under>>
account == <<session, probe>>
run     == <<pc, queue, video, dropped, excused>>
checks  == <<check, alone>>
vars    == <<world, coded, files, share, account, run, checks>>

Whole(f)  == f # NoFile /\ f.len = f.full
Windows   == world.os = "windows"

Linux ==
  [os      : {"linux"},
   delete  : BOOLEAN,   \* transfer.delete_local_after_transfer
   stat    : BOOLEAN,   \* the share lets copystat and rsync set times
   require : BOOLEAN,   \* transfer.require_mountpoint
   accepts : {1..3, {2, 3}, {2}, {}}]  \* the Flags that rsync succeeds with

OnWindows ==
  [os      : {"windows"},
   delete  : BOOLEAN,
   stat    : BOOLEAN,
   token   : BOOLEAN,   \* our own token may write to the share
   creds   : {"bad", "read", "write"},  \* what the configured account may
   other   : BOOLEAN]   \* the other identity of this session may write

DeliveryInit ==
  /\ world \in Linux \cup OnWindows /\ now = 0
  /\ local = [v \in Videos |-> NoFile] /\ lib = local
  /\ part = local /\ under = local /\ newest = [v \in Videos |-> 0]
  /\ share = "up" /\ session = "none" /\ excused = {}
  /\ probe \in IF Windows THEN {"none", "us", "other"} ELSE {"none"}
  /\ pc = "idle" /\ queue = {} /\ video = NoVideo /\ dropped = FALSE
  /\ check = "idle" /\ alone = TRUE

-------------------------------------------------------------------------------
(* The surroundings.                                                       *)

\* A run encodes, before it transfers.
Encode(v) ==
  /\ pc = "idle" /\ now < MaxEncodes * (Slack + 1)
  /\ now' = now + Slack + 1 /\ newest' = [newest EXCEPT ![v] = now']
  /\ \E len \in 1..MaxLength :
       local' = [local EXCEPT ![v] = [ver |-> now', len |-> len, full |-> len,
                                      time |-> now']]
  /\ UNCHANGED <<world, lib, part, under, share, account, run, checks>>

\* The share is unmounted or its server is down, and comes back.
ShareGoes ==
  /\ share = "up" /\ share' = "down"
  /\ dropped' = (dropped \/ pc # "idle")
  /\ UNCHANGED <<world, coded, files, account, pc, queue, video, excused, checks>>

ShareComes ==
  /\ share = "down" /\ share' = "up"
  /\ UNCHANGED <<world, coded, files, account, run, checks>>

\* Explorer, or another program of this session, connects and disconnects.
OthersConnect ==
  /\ Windows /\ session = "none" /\ session' \in {"old", "other"}
  /\ alone' = FALSE
  /\ UNCHANGED <<world, coded, files, share, probe, run, check>>
OthersLeave ==
  /\ session \in {"old", "other"} /\ session' = "none"
  /\ UNCHANGED <<world, coded, files, share, probe, run, checks>>

\* The password of the settings is changed while the session still holds a
\* connection that was made with the one before.
PasswordChanges ==
  /\ Windows /\ check = "idle" /\ session = "us" /\ session' = "old"
  /\ UNCHANGED <<world, coded, files, share, probe, run, checks>>

-------------------------------------------------------------------------------
(* The account at the share.                                               *)

\* Who may write with the session as it is.
MayWrite(s) ==
  /\ share = "up"
  /\ \/ s = "old"
     \/ s = "us" /\ world.creds = "write"
     \/ s = "other" /\ world.other
     \/ s = "none" /\ world.token

\* try_destination: create a file of a name nobody else has, and forget it.
TryDestination(s) == MayWrite(s)

\* On success the old probe goes too, if it is ours to remove.
ForgetProbe == probe' = IF probe = "us" THEN "none" ELSE probe

\* connect_share: one identity per session.  "none" is "not attempted"; a
\* connection that is ours already answers without asking for the password.
Connect(s) ==
  IF s = "other" THEN [made |-> "none", session |-> s]
  ELSE IF s \in {"us", "old"} THEN [made |-> "yes", session |-> s]
  ELSE IF share = "up" /\ world.creds # "bad" THEN [made |-> "yes", session |-> "us"]
  ELSE [made |-> "no", session |-> s]

\* disconnect_share without force: a connection with open files stays, and nobody
\* looks at the answer.
Disconnected(s) == {"none", s}

-------------------------------------------------------------------------------
(* The transfer.                                                           *)

\* videos_to_ship; with nothing to ship there is no transfer.
Begin ==
  /\ pc = "idle"
  /\ queue' = {v \in Videos : local[v] # NoFile} /\ queue' # {}
  /\ pc' = IF Windows THEN "reach" ELSE "mount"
  /\ dropped' = FALSE
  /\ UNCHANGED <<world, coded, files, share, account, video, excused, checks>>

\* The transfer is over: with an error or not, what is local still is shipped
\* by the next run.
Over ==
  /\ pc' = "idle" /\ queue' = {} /\ video' = NoVideo /\ dropped' = FALSE

\* reach_destination: as we are, then with the credentials.
ReachAsWeAre ==
  /\ pc = "reach" /\ TryDestination(session)
  /\ pc' = "move" /\ ForgetProbe
  /\ UNCHANGED <<world, coded, files, share, session, queue, video, dropped,
                 excused, checks>>

ReachConnecting ==
  /\ pc = "reach" /\ ~TryDestination(session)
  /\ LET c == Connect(session)
     IN  /\ session' = c.session
         /\ IF c.made # "no" /\ TryDestination(c.session)
            THEN /\ pc' = "move" /\ ForgetProbe
                 /\ UNCHANGED <<queue, video, dropped>>
            ELSE Over /\ UNCHANGED probe
  /\ UNCHANGED <<world, coded, files, share, excused, checks>>

\* A slip: the length alone decides.
ThereBySize(v) == lib[v] # NoFile /\ lib[v].len = local[v].len

\* already_there: the same length, and not older than the one to move.
AlreadyThere(v) ==
  /\ share = "up" /\ lib[v] # NoFile
  /\ lib[v].len = local[v].len /\ lib[v].time + Slack >= local[v].time

\* The next file of the list; one that is there is only dropped.
MoveNext ==
  /\ pc = "move" /\ queue # {}
  /\ \E v \in queue :
       /\ queue' = queue \ {v} /\ video' = v
       /\ pc' = IF AlreadyThere(v) THEN "unlink" ELSE "copy"
  /\ UNCHANGED <<world, coded, files, share, account, dropped, excused, checks>>

\* shutil.copyfile opens <name>.part, empties it and fills it.
CopyStarts ==
  /\ pc = "copy" /\ share = "up" /\ pc' = "copying"
  /\ part' = [part EXCEPT ![video] = [local[video] EXCEPT !.len = 0]]
  /\ UNCHANGED <<world, coded, local, lib, under, share, account, queue, video,
                 dropped, excused, checks>>

\* It returns: with the whole of it, or with less and no error.
CopyEnds ==
  /\ pc = "copying" /\ share = "up" /\ pc' = "compare"
  /\ \E len \in 0..local[video].len :
       part' = [part EXCEPT ![video] = [local[video] EXCEPT !.len = len,
                                          !.time = now + NasAhead]]
  /\ UNCHANGED <<world, coded, local, lib, under, share, account, queue, video,
                 dropped, excused, checks>>

\* A file failed: the .part goes, if it can, and the next file is tried.
DropPart == part' \in {part, [part EXCEPT ![video] = NoFile]}

Fail ==
  /\ pc \in {"copy", "copying", "compare", "replace"}
  /\ pc' = "move" /\ video' = NoVideo
  /\ IF share = "up" THEN DropPart ELSE UNCHANGED part
  /\ UNCHANGED <<world, coded, local, lib, under, share, account, queue, dropped,
                 excused, checks>>

\* A slip: no look at the length.
CompareNothing ==
  /\ pc = "compare" /\ share = "up" /\ pc' = "replace"
  /\ UNCHANGED <<world, coded, files, share, account, queue, video, dropped, excused, checks>>

\* The lengths are compared; copystat is a courtesy.
Compare ==
  /\ pc = "compare" /\ share = "up" /\ part[video].len = local[video].len
  /\ pc' = "replace"
  /\ part' = IF world.stat THEN [part EXCEPT ![video].time = local[video].time]
                           ELSE part
  /\ UNCHANGED <<world, coded, local, lib, under, share, account, queue, video,
                 dropped, excused, checks>>

\* replace_atomic; a player that holds the old file open makes it Fail.
Replace ==
  /\ pc = "replace" /\ share = "up" /\ pc' = "unlink"
  /\ lib' = [lib EXCEPT ![video] = part[video]]
  /\ part' = [part EXCEPT ![video] = NoFile]
  /\ UNCHANGED <<world, coded, local, under, share, account, queue, video, dropped,
                 excused, checks>>

\* The original goes last, if it is to go and can.
Unlink ==
  /\ pc = "unlink" /\ pc' = "move" /\ video' = NoVideo
  /\ \/ world.delete /\ local' = [local EXCEPT ![video] = NoFile]
     \/ UNCHANGED local
  /\ UNCHANGED <<world, coded, lib, part, under, share, account, queue, dropped,
                 excused, checks>>

MoveOver ==
  /\ pc = "move" /\ queue = {} /\ Over
  /\ UNCHANGED <<world, coded, files, share, account, excused, checks>>

-------------------------------------------------------------------------------
(* ... and on Linux.                                                       *)

\* mount_problem: a share that has to be mounted and is not.
MountProblem == world.require /\ share = "down"

LookAtMount ==
  /\ pc = "mount"
  /\ IF MountProblem THEN Over
     ELSE pc' = "rsync" /\ UNCHANGED <<queue, video, dropped>>
  /\ UNCHANGED <<world, coded, files, share, account, excused, checks>>

\* rsync's quick check, of the file where it is about to write.
Same(f, g) == f.len = g.len /\ f.time = g.time
Arrives(f, v) ==
  IF Same(f[v], local[v]) THEN f
  ELSE [f EXCEPT ![v] = [local[v] EXCEPT
                           !.time = IF world.stat THEN @ ELSE now + NasAhead]]

\* What rsync writes goes to the share, or under it when it is not mounted.
WriteTo(v, onShare, underIt) ==
  IF share = "up" THEN lib' = onShare /\ UNCHANGED <<under, excused>>
  ELSE /\ under' = underIt /\ UNCHANGED lib
       /\ excused' = IF dropped THEN excused \cup {v} ELSE excused \ {v}

\* One file of rsync's list arrives; --remove-source-files takes it at once.
RsyncFile ==
  /\ pc = "rsync" /\ world.accepts # {}
  /\ \E v \in queue :
       /\ queue' = queue \ {v} /\ WriteTo(v, Arrives(lib, v), Arrives(under, v))
       /\ \/ world.delete /\ local' = [local EXCEPT ![v] = NoFile]
          \/ UNCHANGED local
  /\ UNCHANGED <<world, coded, part, share, account, pc, video, dropped, checks>>

\* It fails or is stopped by a timeout; --partial leaves what has come across
\* of a file under its name.
PartOf(f, v) ==
  [f EXCEPT ![v] = [local[v] EXCEPT !.len = @ - 1, !.time = now + NasAhead]]

RsyncFails ==
  /\ pc = "rsync" /\ Over
  /\ \/ \E v \in queue : WriteTo(v, PartOf(lib, v), PartOf(under, v))
     \/ UNCHANGED <<lib, under, excused>>
  /\ UNCHANGED <<world, coded, local, part, share, account, checks>>

RsyncDone ==
  /\ pc = "rsync" /\ queue = {}
  /\ IF world.delete
     THEN /\ pc' = "drop" /\ queue' = {v \in Videos : local[v] # NoFile}
          /\ UNCHANGED <<video, dropped>>
     ELSE Over
  /\ UNCHANGED <<world, coded, files, share, account, excused, checks>>

\* What rsync left of the originals is removed file by file.
DropOriginal ==
  /\ pc = "drop"
  /\ IF queue = {} THEN Over /\ UNCHANGED local
     ELSE \E v \in queue :
            /\ local' = [local EXCEPT ![v] = NoFile] /\ queue' = queue \ {v}
            /\ UNCHANGED <<pc, video, dropped>>
  /\ UNCHANGED <<world, coded, lib, part, under, share, account, excused, checks>>

\* The run is killed.
Kill ==
  /\ pc # "idle" /\ Over
  /\ UNCHANGED <<world, coded, files, share, account, excused, checks>>

-------------------------------------------------------------------------------
(* The checks of the wizard and the pre-flight.                            *)

\* A slip: whatever the session holds may stay.
VerifyOverSession ==
  /\ Windows /\ check = "idle" /\ check' = "dropped" /\ alone' = TRUE
  /\ UNCHANGED <<world, coded, files, share, account, run>>

\* verify_share_credentials: first nothing of the session should be in the way,
VerifyStart ==
  /\ Windows /\ check = "idle" /\ check' = "dropped"
  /\ session' \in Disconnected(session)
  /\ alone' = (session' \in {"none", "us"})
  /\ UNCHANGED <<world, coded, files, share, probe, run>>

\* then the credentials are presented, and anything but a yes is a no,
VerifyConnect(ok) ==
  /\ check = "dropped" /\ ok = (Connect(session).made = "yes")
  /\ IF ok THEN check' = "connected" /\ session' = Connect(session).session
     ELSE check' = "idle" /\ session' \in Disconnected(Connect(session).session)
  /\ UNCHANGED <<world, coded, files, share, probe, run, alone>>

\* then a file is written, and the connection dropped.
VerifyTry(ok) ==
  /\ check = "connected" /\ ok = TryDestination(session)
  /\ check' = "idle" /\ session' \in Disconnected(session)
  /\ IF ok THEN ForgetProbe ELSE UNCHANGED probe
  /\ UNCHANGED <<world, coded, files, share, run, alone>>

\* RSYNC_CANDIDATES, in the order they are tried.
Flags == <<"-a", "-rt", "-a --no-perms --no-owner --no-group">>

\* probe_as: the account the nightly run has, or no probe.
CanProbeAs(caller, runuser) ==
  caller = "service" \/ (caller = "root" /\ runuser)

\* A slip: an account that cannot try is refused.
TryRsyncNested(i, caller, runuser, tools) ==
  IF CanProbeAs(caller, runuser) /\ tools /\ i \in world.accepts THEN "yes" ELSE "no"

\* try_rsync_args: "untested" is not a no.
TryRsync(i, caller, runuser, tools) ==
  IF CanProbeAs(caller, runuser) /\ tools
  THEN IF i \in world.accepts THEN "yes" ELSE "no"
  ELSE "untested"

\* probe_rsync_flags: the first flags that work, 0 if none do; if it can be told.
ProbeFlags(caller, runuser, tools) ==
  LET Try(i)  == TryRsync(i, caller, runuser, tools)
      stops   == {i \in 1..Len(Flags) : Try(i) # "no"}
      first   == CHOOSE i \in stops : \A j \in stops : i <= j
  IN  IF stops = {} THEN 0 ELSE IF Try(first) = "yes" THEN first ELSE Untested

-------------------------------------------------------------------------------
Moving ==
  \/ Begin \/ ReachAsWeAre \/ ReachConnecting \/ MoveNext
  \/ CopyStarts \/ CopyEnds \/ Compare \/ Replace \/ Unlink \/ Fail \/ MoveOver
  \/ LookAtMount \/ RsyncFile \/ RsyncFails \/ RsyncDone \/ DropOriginal

DeliveryNext ==
  \/ \E v \in Videos : Encode(v)
  \/ ShareGoes \/ ShareComes \/ OthersConnect \/ OthersLeave \/ PasswordChanges
  \/ Moving \/ Kill
  \/ VerifyStart \/ \E ok \in BOOLEAN : VerifyConnect(ok) \/ VerifyTry(ok)

DeliverySpec == DeliveryInit /\ [][DeliveryNext]_vars

-------------------------------------------------------------------------------
(* Properties.                                                             *)

File == [ver : 0..(MaxEncodes * (Slack + 1)), len : 0..MaxLength,
         full : 0..MaxLength, time : 0..(MaxEncodes * (Slack + 1) + NasAhead)]

TypeOK ==
  /\ now \in 0..(MaxEncodes * (Slack + 1))
  /\ {local, lib, part, under} \subseteq [Videos -> File]
  /\ share \in {"up", "down"} /\ session \in {"none", "us", "old", "other"}
  /\ probe \in {"none", "us", "other"} /\ dropped \in BOOLEAN
  /\ pc \in {"idle", "reach", "move", "copy", "copying", "compare", "replace",
             "unlink", "mount", "rsync", "drop"}
  /\ queue \subseteq Videos /\ excused \subseteq Videos
  /\ video \in Videos \cup {NoVideo}
  /\ check \in {"idle", "dropped", "connected"} /\ alone \in BOOLEAN

\* The last video of a name exists as a whole: here, at the destination, or
\* where the share will be when it is mounted again, if nobody asked for a mount
\* or it went away after that was looked at.
IsNewest(f, v) == f.ver = newest[v] /\ Whole(f)
Arrived(v) ==
  \/ IsNewest(lib[v], v)
  \/ IsNewest(under[v], v) /\ (v \in excused \/ ~world.require)
NewestIsKept ==
  \A v \in Videos : newest[v] # 0 => IsNewest(local[v], v) \/ Arrived(v)

\* "The destination never holds a partial file under a name anything will read."
NeverHalfThere == Windows => \A v \in Videos : lib[v] = NoFile \/ Whole(lib[v])

\* verify_share_credentials answers for the credentials and nothing else, as far as
\* its disconnects work and nobody connects to the share meanwhile: a connection
\* of theirs that stays, by a password that has changed since, answers in the
\* place of the credentials.  One of its own that an earlier check left does not,
\* and no file that an earlier check left turns the answer into a no.
CredentialsVerified ==
  [][\A ok \in BOOLEAN :
       VerifyTry(ok) /\ alone =>
         ok = (share = "up" /\ world.creds = "write")]_vars

\* The probe of rsync blames the share only for what the nightly run will meet
\* there, and never for what this account cannot try.
RsyncProbeHonest ==
  ~Windows =>
    \A caller \in {"root", "service", "user"}, runuser, tools \in BOOLEAN :
      LET flags == ProbeFlags(caller, runuser, tools)
      IN  flags # Untested =>
            /\ flags # 0 <=> world.accepts # {}
            /\ flags # 0 => flags \in world.accepts /\ flags - 1 \notin world.accepts
===============================================================================
