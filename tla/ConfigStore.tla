---------------------------- MODULE ConfigStore ----------------------------
(***************************************************************************)
(* The one file everything is configured by, and the rotation of copies    *)
(* kept beside it: timelapse_setup.py.  Sessions of `timelapse cameras`,   *)
(* `restore`, `setup` and `config` read it, ask for minutes, and write it; *)
(* the capture daemon reads it once, when it starts.  A configuration is   *)
(* the number of the save that made it.  Questions of two sessions may     *)
(* overlap; two saves may not (a save takes milliseconds): see Saving.     *)
(* What is asked in the end is whether capture is to be restarted.         *)
(***************************************************************************)
EXTENDS Integers, Sequences, FiniteSets

CONSTANTS Sessions,        \* operators' terminals
          Keep,            \* BACKUP_KEEP
          MaxSaves,        \* bound: backups taken and configurations written
          MaxClock,        \* bound: the seconds the run lasts
          ClockMayStepBack \* DST, or a clock set by hand

ASSUME ConfigStoreAssumption ==
    /\ Keep \in Nat \ {0} /\ MaxSaves \in Nat /\ MaxClock \in Nat
    /\ ClockMayStepBack \in BOOLEAN

VARIABLES file,     \* what the path holds: a configuration, Torn or Gone
          backups,  \* the copies beside it: [stamp, n, holds]
          clock,    \* local time to the second, as strftime prints it
          desk,     \* Sessions -> the session open at that terminal
          saves,    \* how many of either there have been
          daemon,   \* the configuration the capture daemon runs on, Down or Launched
          shows,    \* what of it the service manager shows: "start", "run" or "stop"
          made,     \* history: how many copies have been made, torn ones included
          said,     \* history: the last an operator was told of the daemon and this file
          premature \* history: ... that it does not run, of one that starts or ends

configVars == <<file, backups, clock, desk, saves, daemon, shows, made, said, premature>>
store == <<file, backups, made>>          \* what is on disk
capture == <<daemon, shows, said, premature>>

Torn == -1
Gone == -2
Down == -3
Launched == -4    \* its process is there and has not read the file yet
Nobody == [at |-> "idle", kind |-> "none", ver |-> 0, replaced |-> Gone]

----------------------------------------------------------------------------

(* backup_key: parsed, never compared as text.                             *)
Below(a, b) == \/ a.stamp < b.stamp
               \/ a.stamp = b.stamp /\ a.n < b.n

(* list_backups shows the newest first: the one at place 0 is number 1.    *)
Place(b, S) == Cardinality({o \in S : Below(b, o)})

(* Slip: the first free slot of the second.                                *)
FirstFree(S) ==
    CHOOSE m \in 0..Cardinality(S) :
      /\ ~\E b \in S : b.stamp = clock /\ b.n = m
      /\ \A o \in 0..(m - 1) : \E b \in S : b.stamp = clock /\ b.n = o

(* The highest counter already used this second plus one, never the first  *)
(* free slot.                                                              *)
Counter(S) ==
    LET used == {b.n : b \in {o \in S : o.stamp = clock}}
    IN  IF used = {} THEN 0
        ELSE 1 + CHOOSE m \in used : \A o \in used : o <= m

(* The new copy, of what is there or of less.                              *)
Copy(holds) == [stamp |-> clock, n |-> Counter(backups), holds |-> holds, made |-> made + 1]

(* All but backup_paths(out)[:-keep].                                      *)
Pruned(S) == {b \in S : Place(b, S) < Keep}

(* backup_config: copy, then prune; an unlink that fails is passed over.   *)
CopyAside ==
    /\ file # Gone /\ made' = made + 1
    /\ LET all == backups \cup {Copy(file)}
       IN  \E stay \in SUBSET (all \ Pruned(all)) : backups' = Pruned(all) \cup stay

(* copy2 fails when it has written some of the copy or all of it, or the   *)
(* process is killed then: what it wrote stays, the newest by its name, and *)
(* nothing is pruned.  The failure is a warning and never stops the write   *)
(* it was protecting.                                                      *)
CopyFails ==
    /\ file # Gone /\ made' = made + 1
    /\ \E holds \in {file, Torn} : backups' = backups \cup {Copy(holds)}

(* There is nothing to copy, or the copy cannot even be opened.            *)
NoCopy == UNCHANGED <<backups, made>>

----------------------------------------------------------------------------
ConfigInit ==
    /\ file = 0 /\ backups = {} /\ clock = 0 /\ saves = 0 /\ daemon = 0 /\ shows = "run"
    /\ desk = [s \in Sessions |-> Nobody]
    /\ made = 0 /\ said = "nothing" /\ premature = FALSE

At(s, where) == desk[s].at = where

(* Two saves at once share config.json.tmp; see the README.                *)
Saving == \E s \in Sessions : At(s, "backed")

(* main: a section loads the file first and refuses one it cannot parse;   *)
(* the full wizard starts from the template.                               *)
Open(s) ==
    /\ At(s, "idle") /\ saves < MaxSaves
    /\ \E kind \in {"section", "setup"} :
         /\ kind = "section" => file >= 0
         /\ desk' = [desk EXCEPT ![s] = [Nobody EXCEPT !.at = "asking",
                                                       !.kind = kind]]
    /\ UNCHANGED <<store, clock, saves, capture>>

(* restore_config, up to the confirmation: any backup that still parses    *)
(* when it is opened, whatever the configuration itself is like.           *)
ChooseBackup(s) ==
    /\ At(s, "idle") /\ saves < MaxSaves
    /\ \E b \in backups :
         /\ b.holds >= 0
         /\ desk' = [desk EXCEPT ![s] = [Nobody EXCEPT !.at = "asking",
                                                       !.kind = "restore",
                                                       !.ver = b.holds]]
    /\ UNCHANGED <<store, clock, saves, capture>>

(* Declined, or Ctrl-C at a prompt: nothing was written.                   *)
Decline(s) ==
    /\ At(s, "asking")
    /\ desk' = [desk EXCEPT ![s] = Nobody]
    /\ UNCHANGED <<store, clock, saves, capture>>

(* write_config, first half.  What is restored keeps its number; anything  *)
(* else is a configuration of its own.                                     *)
Backup(s) ==
    /\ At(s, "asking") /\ ~Saving /\ saves < MaxSaves
    /\ saves' = saves + 1
    /\ \E copied \in BOOLEAN :
         /\ IF copied THEN CopyAside ELSE CopyFails \/ NoCopy
         /\ desk' = [desk EXCEPT ![s].at = "backed",
                                 ![s].ver = IF desk[s].kind = "restore" THEN @
                                            ELSE saves + 1,
                                 ![s].replaced = IF copied THEN file ELSE Gone]
    /\ UNCHANGED <<file, clock, capture>>

(* write_config, second half: the temporary file is whole before it is     *)
(* moved over the old one, so what the path holds is one or the other.     *)
PutInPlace(s) ==
    /\ At(s, "backed")
    /\ file' = desk[s].ver
    /\ said' = "nothing"
    /\ desk' = [desk EXCEPT ![s] = [Nobody EXCEPT !.at = "saved",
                                                  !.kind = desk[s].kind]]
    /\ UNCHANGED <<backups, made, clock, saves, daemon, shows, premature>>

(* The disk is full, or Windows refuses the rename: report_unsaved.        *)
SaveFails(s) ==
    /\ At(s, "backed")
    /\ desk' = [desk EXCEPT ![s] = Nobody]
    /\ UNCHANGED <<store, clock, saves, capture>>

(* unit_is_active: not at all, when the service manager cannot be asked;   *)
(* not for one that is ending; of one that is starting systemd says yes    *)
(* (Type=simple) and Windows no.                                           *)
ActiveSays == {"unknown"} \cup IF daemon = Down \/ shows = "stop" THEN {"no"}
                          ELSE IF shows = "start" THEN {"yes", "no"} ELSE {"yes"}

(* restart_capture_if_running, at the end of every section that capture    *)
(* reads: the service manager cannot be asked, which is silent; "Capture   *)
(* is not running; the new list applies when it next starts"; or it runs,  *)
(* and the operator is asked.  The full wizard never touches a service.    *)
OfferRestart(s) ==
    /\ At(s, "saved")
    /\ \E active \in IF desk[s].kind = "setup" THEN {"unknown"} ELSE ActiveSays :
         /\ desk' = [desk EXCEPT ![s] = IF active = "yes" THEN [@ EXCEPT !.at = "offered"]
                                        ELSE Nobody]
         /\ said' = IF active = "no" THEN "not running" ELSE said
         /\ premature' = IF active = "no" THEN daemon \notin {Down, Launched} ELSE premature
    /\ UNCHANGED <<store, clock, saves, daemon, shows>>

(* Slip: systemctl start, which does nothing to a unit that is active.     *)
StartedAnew(d) == IF d = Down THEN Launched ELSE d

(* restart_service: whatever ran is stopped, and a new process started.    *)
Restarted(d) == Launched

(* "Restart capture so the change takes effect now?"  Declined, done, or   *)
(* failed, when nothing may run any more.                                  *)
Answered(s) ==
    /\ At(s, "offered")
    /\ desk' = [desk EXCEPT ![s] = Nobody]
    /\ \/ said' = "previous" /\ UNCHANGED <<daemon, shows, premature>>
       \/ /\ daemon' = Restarted(daemon) /\ shows' = "start"
          /\ said' = "restarted" /\ premature' = FALSE
       \/ /\ said' = "failed" /\ daemon' \in {daemon, Down} /\ UNCHANGED premature
          /\ shows' = IF daemon' = Down THEN "start" ELSE shows
    /\ UNCHANGED <<store, clock, saves>>

(* The terminal is closed in the middle of a save, or at the question.     *)
Closed(s) ==
    /\ desk[s].at \in {"backed", "saved", "offered"}
    /\ desk' = [desk EXCEPT ![s] = Nobody]
    /\ UNCHANGED <<store, clock, saves, capture>>

(* `timelapse config`: --backup-now, then the editor, which writes the     *)
(* file in place and in its own time.                                      *)
OpenEditor(s) ==
    /\ At(s, "idle") /\ ~Saving /\ saves < MaxSaves
    /\ CopyAside \/ CopyFails \/ NoCopy
    /\ saves' = saves + 1
    /\ desk' = [desk EXCEPT ![s] = [Nobody EXCEPT !.at = "editing",
                                                  !.kind = "config"]]
    /\ UNCHANGED <<file, clock, capture>>

EditorSaves(s) ==
    /\ At(s, "editing") /\ ~Saving /\ saves < MaxSaves
    /\ saves' = saves + 1
    /\ file' \in {saves + 1, Torn}
    /\ said' = "nothing"                   \* but "restart capture yourself"
    /\ UNCHANGED <<backups, made, clock, desk, daemon, shows, premature>>

EditorCloses(s) ==
    /\ At(s, "editing")
    /\ desk' = [desk EXCEPT ![s] = Nobody]
    /\ UNCHANGED <<store, clock, saves, capture>>

(* "I broke it" and "it is gone".                                          *)
Broken ==
    /\ file >= 0 /\ ~Saving /\ saves < MaxSaves
    /\ saves' = saves + 1
    /\ file' \in {Torn, Gone} /\ said' = "nothing"
    /\ UNCHANGED <<backups, made, clock, desk, daemon, shows, premature>>

(* The daemon is started by its supervisor, after a crash or a reboot, or   *)
(* by the operator; reads the file, without which it ends; is up; is told   *)
(* to stop; and ends.                                                      *)
DaemonStarts ==
    /\ daemon = Down /\ daemon' = Launched
    /\ UNCHANGED <<store, clock, desk, saves, shows, said, premature>>

DaemonReads ==
    /\ daemon = Launched /\ daemon' = IF file >= 0 THEN file ELSE Down
    /\ shows' = IF file >= 0 THEN shows ELSE "start"
    /\ UNCHANGED <<store, clock, desk, saves, said, premature>>

DaemonShows ==
    /\ daemon # Down /\ shows # "stop"
    /\ \/ daemon >= 0 /\ shows = "start" /\ shows' = "run"
       \/ shows' = "stop"
    /\ UNCHANGED <<store, clock, desk, saves, daemon, said, premature>>

DaemonEnds ==
    /\ daemon # Down /\ daemon' = Down /\ shows' = "start"
    /\ UNCHANGED <<store, clock, desk, saves, said, premature>>

Second ==
    /\ clock' \in {c \in 0..MaxClock :
                     \/ c = clock + 1
                     \/ ClockMayStepBack /\ c = clock - 1}
    /\ UNCHANGED <<store, desk, saves, capture>>

AtDesk(s) == \/ Open(s) \/ ChooseBackup(s) \/ Decline(s) \/ Backup(s)
             \/ PutInPlace(s) \/ SaveFails(s) \/ OfferRestart(s) \/ Answered(s)
             \/ Closed(s) \/ OpenEditor(s) \/ EditorSaves(s) \/ EditorCloses(s)

ConfigNext == (\E s \in Sessions : AtDesk(s)) \/ Broken \/ Second
              \/ DaemonStarts \/ DaemonReads \/ DaemonShows \/ DaemonEnds

ConfigSpec == ConfigInit /\ [][ConfigNext]_configVars

----------------------------------------------------------------------------
(* While the clock runs forwards, the list an operator picks from is the   *)
(* order things happened in, however many saves fell into one second and   *)
(* however many copies were pruned in between; and the last Keep copies    *)
(* that were made are in it.  A copy that failed half way is one of them,  *)
(* and pushes a good one out; one that could not be unlinked is more.      *)
ListedInOrder ==
    ~ClockMayStepBack =>
    /\ \A a, b \in backups : Below(a, b) <=> a.made < b.made
    /\ \A k \in 1..made : k > made - Keep => \E b \in backups : b.made = k

(* restore_config: "The current config is backed up first, so this is      *)
(* reversible."  What a save is about to replace is among the backups.     *)
RestoreIsReversible ==
    \A s \in Sessions :
      At(s, "backed") /\ desk[s].replaced # Gone
      => \E b \in backups : b.holds = desk[s].replaced

(* What an operator was told of the daemon is so until the file changes    *)
(* again, whoever saved, restored, asked, answered, started or stopped it  *)
(* in between: after "Capture restarted on the new camera list", and after *)
(* "Capture is not running; the new list applies when it next starts",     *)
(* no daemon runs on another configuration than the file holds.  Not so if *)
(* that was said of one that had read the older file: it was starting or    *)
(* ending.                                                                 *)
SaidIsSo ==
    said \in {"restarted", "not running"} /\ ~premature
    => daemon \in {Down, Launched, file}

=============================================================================
