----------------------------- MODULE LibraryIndex -----------------------------
(***************************************************************************)
(* The web server's index of the video library (timelapse_web.py, class    *)
(* Index): a table of rows beside a directory tree on a share that other   *)
(* machines write and that may not be mounted.  One worker scans the whole *)
(* tree; requests re-read one folder or one file.  Both read the disk      *)
(* first and write their rows later.  The tree is one level of folders     *)
(* below the root.                                                         *)
(***************************************************************************)
EXTENDS Integers, FiniteSets

CONSTANTS
  Folders, Root,   \* the directories, the library root among them
  Names,           \* of video files
  Versions,        \* a file's size and mtime
  Gone,            \* no file, or no row
  RetryLimit,      \* SCAN_RETRY_LIMIT
  BatchSize,       \* rows written at once (500)
  Requests         \* bound: page requests at a time

ASSUME IndexAssumption ==
  /\ Root \in Folders /\ Gone \notin Versions
  /\ IsFiniteSet(Folders) /\ IsFiniteSet(Names)
  /\ RetryLimit \in Nat \ {0} /\ BatchSize \in Nat \ {0}

Paths  == Folders \X Names
Blank  == [p \in Paths |-> Gone]
Rows(table) == {p \in Paths : table[p] # Gone}

VARIABLES
  library,   \* external: the files of the library
  mount,     \* external: "up", "flaky" (any read may fail), "empty" (a bare
             \* mountpoint) or "gone"
  index,     \* the table `files`
  scan,      \* the scan worker: "idle", "wait" (for the library) or "walk"
  tries,     \* its attempts to find the library
  stack,     \* the directories _walk has still to read
  entries,   \* what is left of the listing it is in
  seen,      \* the paths it saw
  batch,     \* the rows it has not written
  before,    \* there were rows when it began
  view,      \* of each request: what it re-reads, and what it found
  steady,    \* history: the mount has stayed what it was since the walk began
  missed     \* history: and these files were missing at some time since then

worker == <<scan, tries, stack, entries, seen, batch, before, missed, steady>>
walk   == <<tries, stack, before, missed, steady>>
vars   == <<library, mount, index, worker, view>>

\* What a read of the library finds.
Visible == IF mount \in {"up", "flaky"} THEN library ELSE Blank

NoView == [stage |-> "none", scope |-> {}, found |-> Blank]

-------------------------------------------------------------------------------
WorkerAtRest ==
  /\ tries = 0 /\ stack = {} /\ entries = Blank /\ seen = {} /\ batch = Blank
  /\ before = FALSE /\ missed = {} /\ steady = TRUE

\* main: the first scan starts with the server.
Init ==
  /\ library \in [Paths -> Versions \cup {Gone}] /\ mount \in {"up", "empty", "gone"}
  /\ index = Blank
  /\ scan = "wait" /\ WorkerAtRest
  /\ view = [q \in Requests |-> NoView]

LibraryChanges ==
  /\ \E p \in Paths : \E v \in (Versions \cup {Gone}) \ {library[p]} :
       /\ library' = [library EXCEPT ![p] = v]
       /\ missed' = IF v = Gone /\ scan = "walk" /\ steady THEN missed \cup {p}
                    ELSE missed
  /\ UNCHANGED <<mount, index, scan, tries, stack, entries, seen, batch, before,
                 steady, view>>

MountChanges ==
  /\ \E m \in {"up", "flaky", "empty", "gone"} \ {mount} : mount' = m
  /\ steady' = (scan # "walk") /\ missed' = {}
  /\ UNCHANGED <<library, index, scan, tries, stack, entries, seen, batch, before,
                 view>>

-------------------------------------------------------------------------------
(* The scan worker.                                                        *)

\* start_scan: one scan at a time.
StartScan ==
  /\ scan = "idle" /\ scan' = "wait"
  /\ UNCHANGED <<library, mount, index, walk, entries, seen, batch, view>>

\* However the worker ends, it says so.
Rest ==
  /\ scan' = "idle"
  /\ tries' = 0 /\ stack' = {} /\ entries' = Blank /\ seen' = {} /\ batch' = Blank
  /\ before' = FALSE /\ missed' = {} /\ steady' = TRUE

\* _wait_for_library: the root cannot be read; after RetryLimit attempts the
\* scan is over and the index kept.
LibraryUnreadable ==
  /\ scan = "wait" /\ mount \in {"gone", "flaky"}
  /\ IF tries + 1 = RetryLimit
     THEN Rest
     ELSE /\ tries' = tries + 1
          /\ UNCHANGED <<scan, stack, entries, seen, batch, before, missed, steady>>
  /\ UNCHANGED <<library, mount, index, view>>

\* The root can be read, be it of a share that is not mounted: the rows are
\* counted and the walk begins.
LibraryFound ==
  /\ scan = "wait" /\ mount # "gone"
  /\ scan' = "walk" /\ stack' = {Root} /\ before' = (Rows(index) # {})
  /\ missed' = {p \in Paths : library[p] = Gone} /\ steady' = TRUE
  /\ UNCHANGED <<library, mount, index, tries, entries, seen, batch, view>>

\* _walk: the next directory is read as a whole; the root's also gives the
\* folders, those without a video only if they exist.  One that cannot be read
\* is left out.
ListDirectory ==
  /\ scan = "walk" /\ entries = Blank /\ Cardinality(Rows(batch)) < BatchSize
  /\ \E d \in stack :
       \/ /\ entries' = [p \in Paths |-> IF p[1] = d THEN Visible[p] ELSE Gone]
          /\ \E folders \in SUBSET (Folders \ {Root}) :
               /\ {p[1] : p \in Rows(Visible)} \subseteq folders \cup {Root}
               /\ mount \in {"up", "flaky"} \/ folders = {}
               /\ stack' = (stack \ {d}) \cup (IF d = Root THEN folders ELSE {})
       \/ /\ mount # "up"
          /\ stack' = stack \ {d} /\ UNCHANGED entries
  /\ UNCHANGED <<library, mount, index, scan, tries, seen, batch, before, missed,
                 steady, view>>

\* An entry becomes a row, with the size and time of now or (on Windows) of the
\* listing, or it has vanished.
TakeEntry ==
  /\ scan = "walk" /\ Cardinality(Rows(batch)) < BatchSize
  /\ \E p \in Rows(entries) :
       /\ entries' = [entries EXCEPT ![p] = Gone]
       /\ \/ \E v \in {entries[p], Visible[p]} \ {Gone} :
               seen' = seen \cup {p} /\ batch' = [batch EXCEPT ![p] = v]
          \/ /\ mount = "flaky" \/ Visible[p] = Gone
             /\ UNCHANGED <<seen, batch>>
  /\ UNCHANGED <<library, mount, index, scan, walk, view>>

WalkIsOver == stack = {} /\ entries = Blank

\* _write: a full batch, or the rest of the rows after the walk.
Flush ==
  /\ scan = "walk" /\ Rows(batch) # {}
  /\ WalkIsOver \/ Cardinality(Rows(batch)) = BatchSize
  /\ index' = [p \in Paths |-> IF batch[p] # Gone THEN batch[p] ELSE index[p]]
  /\ batch' = Blank
  /\ UNCHANGED <<library, mount, scan, walk, entries, seen, view>>

\* Two slips: rows deleted whatever was found, and none ever deleted.
PruneAlways ==
  /\ scan = "walk" /\ WalkIsOver /\ batch = Blank
  /\ index' = [p \in Paths |-> IF p \in seen THEN index[p] ELSE Gone]
  /\ Rest
  /\ UNCHANGED <<library, mount, view>>
PruneNothing ==
  /\ scan = "walk" /\ WalkIsOver /\ batch = Blank
  /\ Rest
  /\ UNCHANGED <<library, mount, index, view>>

\* What was not seen is deleted, but for a scan that saw nothing where there
\* had been rows.
Prune ==
  /\ scan = "walk" /\ WalkIsOver /\ batch = Blank
  /\ index' = IF seen = {} /\ before THEN index
              ELSE [p \in Paths |-> IF p \in seen THEN index[p] ELSE Gone]
  /\ Rest
  /\ UNCHANGED <<library, mount, view>>

\* The database refuses: the scan is over, with the batches it has written.
ScanFails ==
  /\ scan = "walk" /\ Rest
  /\ UNCHANGED <<library, mount, index, view>>

-------------------------------------------------------------------------------
(* Requests.                                                               *)

\* reconcile_file (of a player's request, or of each file of a day): one stat;
\* a file it cannot be had of is gone.
OpenFile(q, p) ==
  /\ view[q].stage = "none"
  /\ \E readable \in {TRUE, mount # "flaky"} :
       view' = [view EXCEPT ![q] =
         [stage |-> "read", scope |-> {p},
          found |-> [r \in Paths |-> IF readable /\ r = p THEN Visible[r] ELSE Gone]]]
  /\ UNCHANGED <<library, mount, index, worker>>

\* reconcile_dir: the folder's listing; one that cannot be read is empty.
OpenFolder(q, d) ==
  /\ view[q].stage = "none"
  /\ \E readable \in {TRUE, mount # "flaky"} :
       view' = [view EXCEPT ![q] =
         [stage |-> "listed", scope |-> {p \in Paths : p[1] = d},
          found |-> [p \in Paths |-> IF readable /\ p[1] = d THEN Visible[p]
                                     ELSE Gone]]]
  /\ UNCHANGED <<library, mount, index, worker>>

\* ... and the stat of each entry.  One that fails counts as a folder that is
\* gone, with all that is filed under it.
StatEntries(q) ==
  LET listed == Rows(view[q].found)
  IN  /\ view[q].stage = "listed"
      /\ \E found \in {view[q].found, Blank,
                       [p \in Paths |-> IF p \in listed THEN Visible[p] ELSE Gone]} :
           /\ found = Blank =>
                listed = {} \/ mount = "flaky" \/ \E p \in listed : Visible[p] = Gone
           /\ found # Blank /\ found # view[q].found => Rows(found) = listed
           /\ view' = [view EXCEPT ![q] = [@ EXCEPT !.stage = "read", !.found = found]]
      /\ UNCHANGED <<library, mount, index, worker>>

\* The rows are brought into line, as one write, and the page is made from them.
Show(q) ==
  /\ view[q].stage = "read"
  /\ index' = [p \in Paths |-> IF p \in view[q].scope THEN view[q].found[p]
                               ELSE index[p]]
  /\ view' = [view EXCEPT ![q] = NoView]
  /\ UNCHANGED <<library, mount, worker>>

\* The database refuses: the page shows what the index has.
ShowStale(q) ==
  /\ view[q].stage = "read"
  /\ view' = [view EXCEPT ![q] = NoView]
  /\ UNCHANGED <<library, mount, index, worker>>

\* A new process: the first scan again, on the old index or, after a change of
\* the schema or of the library's path, on an empty one (_check_generation).
Restart ==
  /\ index' \in {index, Blank}
  /\ scan' = "wait"
  /\ tries' = 0 /\ stack' = {} /\ entries' = Blank /\ seen' = {} /\ batch' = Blank
  /\ before' = FALSE /\ missed' = {} /\ steady' = TRUE
  /\ view' = [q \in Requests |-> NoView]
  /\ UNCHANGED <<library, mount>>

-------------------------------------------------------------------------------
Scanning ==
  \/ LibraryUnreadable \/ LibraryFound \/ ListDirectory \/ TakeEntry
  \/ Flush \/ Prune

Viewing(q) == StatEntries(q) \/ Show(q) \/ ShowStale(q)

Next ==
  \/ LibraryChanges \/ MountChanges \/ Restart
  \/ StartScan \/ Scanning \/ ScanFails
  \/ \E q \in Requests :
       \/ \E p \in Paths : OpenFile(q, p)
       \/ \E d \in Folders : OpenFolder(q, d)
       \/ Viewing(q)

Spec == Init /\ [][Next]_vars

\* The worker's thread and the requests' go on.
FairSpec ==
  Spec /\ WF_vars(Scanning) /\ \A q \in Requests : WF_vars(Viewing(q))

-------------------------------------------------------------------------------
(* Properties.                                                             *)

Table == [Paths -> Versions \cup {Gone}]

\* The type invariant: a row not written yet is of a path that was seen, and a
\* worker that does not walk has nothing in hand.
TypeOK ==
  /\ library \in Table /\ index \in Table
  /\ mount \in {"up", "flaky", "empty", "gone"}
  /\ scan \in {"idle", "wait", "walk"}
  /\ tries \in 0..(RetryLimit - 1)
  /\ stack \subseteq Folders /\ seen \subseteq Paths /\ missed \subseteq Paths
  /\ entries \in Table /\ batch \in Table
  /\ before \in BOOLEAN /\ steady \in BOOLEAN
  /\ view \in [Requests -> [stage : {"none", "listed", "read"},
                            scope : SUBSET Paths, found : Table]]
  /\ Rows(batch) \subseteq seen
  /\ ~steady => missed = {}
  /\ scan # "walk" => stack = {} /\ entries = Blank /\ seen = {} /\ batch = Blank

\* "A missing library does NOT wipe the index", and a mounted one loses no row
\* to a scan but those of files that were missing during it: whatever changes
\* meanwhile, while the mount stays what it was, and in whichever order the
\* requests write their rows (_scan_worker, _walk).
PruneOnlyTheGone ==
  [][Prune /\ steady =>
       /\ mount = "up" => Rows(index) \ Rows(index') \subseteq missed
       /\ mount \in {"empty", "gone"} /\ before => index' = index]_vars

\* Its inductive form: a walk of a mounted library has every file that was
\* there all along behind it, in hand, or in a directory still to be read; and
\* one of a library that is away has seen nothing.
WalkInv ==
  scan = "walk" /\ steady =>
    /\ mount = "up" =>
         \A p \in Paths \ missed :
           /\ library[p] # Gone
           /\ p \in seen \/ entries[p] # Gone \/ p[1] \in stack \/ Root \in stack
    /\ mount \in {"empty", "gone"} => seen = {} /\ entries = Blank

\* The index is what the library is, once the share stays mounted and unchanged
\* and scans are completed again and again: rows written late by a scan or a
\* request that had read an older state do not stay.
Converges ==
  /\ <>[][UNCHANGED <<library, mount>> /\ ~Restart]_vars
  /\ <>[](mount = "up" /\ library # Blank)
  /\ []<><<Prune>>_vars
  => <>[](index = library)

\* A scan ends, whatever the mount does, so that another can be asked for.
ScanEnds == <>[][~Restart]_vars => []<>(scan = "idle")
===============================================================================
