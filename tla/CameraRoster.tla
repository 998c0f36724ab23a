---------------------------- MODULE CameraRoster ----------------------------
(***************************************************************************)
(* `timelapse cameras`: timelapse_setup.py's camera menu and its one-line  *)
(* forms, against the three who go by a camera's name: the daemon, which   *)
(* read the list when it started and writes <frames_root>/<name>/<day>;    *)
(* the nightly encode, which looks under the names the file lists as       *)
(* enabled; and the operator, who is asked before frames are left behind.  *)
(***************************************************************************)
EXTENDS Integers

CONSTANTS Names,   \* what a camera may be called
          LastDay, \* bound: days modelled
          MaxEdits \* bound: changes made at the menu

ASSUME RosterAssumption == LastDay \in Nat /\ MaxEdits \in Nat

VARIABLES day,     \* today
          raw,     \* <<name, day>>: day directories not encoded yet
          dirs,    \* names that have a directory under frames_root
          saved,   \* the file: Names -> "on", "off" or "absent"
          menu,    \* the list in the menu's hands, when it is open
          open,    \* "no", "asking", or "changed" when q has something to save
          captured,\* enabled cameras of the list the daemon started with
          lastDir, \* the daemon's _last_dir: the day it made a directory for
          edits,   \* changes made so far
          told,    \* history: days the operator was told would be left
          unseen,  \* history: ... or could not be, as the directory could not be read
          left     \* history: the day a name was last taken off the list

asked == <<told, unseen, left>>
rosterVars == <<day, raw, dirs, saved, menu, open, captured, lastDir, edits,
                asked>>

Enabled(list) == {n \in Names : list[n] = "on"}
OnList(list) == {n \in Names : list[n] # "absent"}

RosterInit ==
    /\ day = 1 /\ raw = {} /\ dirs = {} /\ edits = 0
    /\ told = {} /\ unseen = {}
    /\ \E n \in Names : saved = [m \in Names |-> IF m = n THEN "on" ELSE "absent"]
    /\ menu = saved /\ open = "no"
    /\ captured = Enabled(saved)
    /\ lastDir = [n \in Names |-> 0] /\ left = [n \in Names |-> 0]

----------------------------------------------------------------------------
(* HttpCamera._dest_path: a directory is made when the date changes, and   *)
(* not looked at again; once it has been moved away the frames of that day *)
(* fail.                                                                   *)
Capture(n) ==
    /\ n \in captured /\ lastDir[n] # day
    /\ lastDir' = [lastDir EXCEPT ![n] = day]
    /\ dirs' = dirs \cup {n} /\ raw' = raw \cup {<<n, day>>}
    /\ UNCHANGED <<day, saved, menu, open, captured, edits,
                   asked>>

Midnight ==
    /\ day < LastDay /\ day' = day + 1
    /\ UNCHANGED <<raw, dirs, saved, menu, open, captured, lastDir, edits,
                   asked>>

(* The nightly run, for one day: find_pending goes by the enabled names.   *)
Encode(n, d) ==
    /\ <<n, d>> \in raw /\ n \in Enabled(saved) /\ d < day
    /\ raw' = raw \ {<<n, d>>}
    /\ UNCHANGED <<day, dirs, saved, menu, open, captured, lastDir, edits,
                   asked>>

(* The daemon starts: a reboot, a crash, or the answer to the question     *)
(* restart_capture_if_running asks.                                        *)
DaemonRestarts ==
    /\ captured' = Enabled(saved)
    /\ lastDir' = [n \in Names |-> 0]
    /\ UNCHANGED <<day, raw, dirs, saved, menu, open, edits,
                   asked>>

----------------------------------------------------------------------------

(* pending_days: completed days without the encoder's marker; none when    *)
(* the directory is not there, as on a share that is not mounted, or       *)
(* cannot be read.                                                         *)
PendingDays(n, readable) ==
    IF readable THEN {d \in 1..(day - 1) : <<n, d>> \in raw} ELSE {}

(* warn_stranded, answered yes: what is pending has been named.            *)
WarnStranded(n) ==
    /\ \E readable \in BOOLEAN :
         /\ told' = told \cup ({n} \X PendingDays(n, readable))
         /\ unseen' = unseen \cup IF readable THEN {} ELSE {p \in raw : p[1] = n}
    /\ left' = [left EXCEPT ![n] = day]

Change(list) ==
    /\ edits < MaxEdits /\ edits' = edits + 1
    /\ menu' = list /\ open' = "changed"

OpenMenu ==
    /\ open = "no" /\ open' = "asking" /\ menu' = saved
    /\ UNCHANGED <<day, raw, dirs, saved, captured, lastDir, edits,
                   asked>>

(* a: add_one_camera refuses a name that is taken.                         *)
Add(n) ==
    /\ open # "no" /\ n \notin OnList(menu)
    /\ Change([menu EXCEPT ![n] = "on"])
    /\ UNCHANGED <<day, raw, dirs, saved, captured, lastDir, asked>>

(* r                                                                       *)
RemoveCamera(n) ==
    /\ open # "no" /\ n \in OnList(menu)
    /\ WarnStranded(n)
    /\ Change([menu EXCEPT ![n] = "absent"])
    /\ UNCHANGED <<day, raw, dirs, saved, captured, lastDir>>

(* Slip: disabling looks harmless and is not asked about.                  *)
DisableUnasked(n) ==
    /\ open # "no" /\ menu[n] = "on"
    /\ left' = [left EXCEPT ![n] = day]
    /\ Change([menu EXCEPT ![n] = "off"])
    /\ UNCHANGED <<day, raw, dirs, saved, captured, lastDir, told, unseen>>

(* x, both ways                                                            *)
Disable(n) ==
    /\ open # "no" /\ menu[n] = "on"
    /\ WarnStranded(n)
    /\ Change([menu EXCEPT ![n] = "off"])
    /\ UNCHANGED <<day, raw, dirs, saved, captured, lastDir>>

Enable(n) ==
    /\ open # "no" /\ menu[n] = "off"
    /\ Change([menu EXCEPT ![n] = "on"])
    /\ UNCHANGED <<day, raw, dirs, saved, captured, lastDir, asked>>

Moved(days, old, new) == {IF p[1] = old THEN <<new, p[2]>> ELSE p : p \in days}

(* rename_camera_frames: nothing to move, or a directory that cannot be    *)
(* seen, which is passed over; moved, today's directory with the rest; or  *)
(* the target exists, the operator declines or the move fails, and each of *)
(* those is a warning.                                                     *)
RenameFrames(old, new) ==
    \/ /\ left' = [left EXCEPT ![old] = day]
       /\ unseen' = unseen \cup {p \in raw : p[1] = old}
       /\ UNCHANGED <<raw, dirs, told>>
    \/ /\ old \in dirs /\ new \notin dirs
       /\ raw' = Moved(raw, old, new) /\ told' = Moved(told, old, new)
       /\ unseen' = Moved(unseen, old, new)
       /\ left' = [left EXCEPT ![new] = left[old], ![old] = day]
       /\ dirs' = (dirs \ {old}) \cup {new}
    \/ /\ old \in dirs /\ left' = [left EXCEPT ![old] = day]
       /\ told' = told \cup {p \in raw : p[1] = old}
       /\ UNCHANGED <<raw, dirs, unseen>>

(* e: the directory moves at once, the list when the menu is left.         *)
Rename(old, new) ==
    /\ open # "no" /\ old \in OnList(menu) /\ new \notin OnList(menu)
    /\ RenameFrames(old, new)
    /\ Change([menu EXCEPT ![new] = menu[old], ![old] = "absent"])
    /\ UNCHANGED <<day, saved, captured, lastDir>>

(* q                                                                       *)
Quit ==
    /\ open # "no" /\ open' = "no"
    /\ saved' = IF open = "changed" THEN menu ELSE saved
    /\ menu' = saved'
    /\ UNCHANGED <<day, raw, dirs, captured, lastDir, edits,
                   asked>>

(* Ctrl-C, or the connection drops: what was renamed has been moved.       *)
Abandon ==
    /\ open # "no" /\ open' = "no" /\ menu' = saved
    /\ UNCHANGED <<day, raw, dirs, saved, captured, lastDir, edits,
                   asked>>

AtMenu == \/ OpenMenu \/ Quit \/ Abandon
          \/ \E n \in Names : Add(n) \/ RemoveCamera(n) \/ Disable(n) \/ Enable(n)
          \/ \E old, new \in Names : Rename(old, new)

RosterNext == \/ Midnight \/ DaemonRestarts \/ AtMenu
              \/ \E n \in Names : Capture(n)
              \/ \E n \in Names, d \in 1..LastDay : Encode(n, d)

RosterSpec == RosterInit /\ [][RosterNext]_rosterVars

----------------------------------------------------------------------------
Stranded == {p \in raw : saved[p[1]] # "on"}

(* A day that was complete when its camera was removed, disabled or        *)
(* renamed is either still encoded by somebody or one the operator was     *)
(* told of, whatever was renamed to and fro, added again, enabled again,   *)
(* or captured in between by a daemon on the old list.  (A directory that  *)
(* a menu moved before it was abandoned is under a name nobody took off.)  *)
(* The exception are days nobody could see when the question was asked.    *)
StrandedIsKnown ==
    open = "no" => \A p \in Stranded : p[2] < left[p[1]] => p \in told \cup unseen

(* docs/architecture.md: "It refuses to strand frames silently."  A camera *)
(* that is disabled while the menu is open leaves nothing behind that the  *)
(* operator was not told of.                                               *)
NeverStrandedSilently ==
    [][\A n \in Names :
         menu[n] = "on" /\ menu'[n] = "off" /\ open' # "no"
         => \A p \in raw' : p[1] = n => p \in told']_rosterVars
=============================================================================
