-------------------------- MODULE LibraryIndexProofs ---------------------------
(***************************************************************************)
(* Proofs about the library index, for any tree of one level, any batch    *)
(* size and any number of requests.  The inductive invariant is WalkInv:   *)
(* while the mount stays up, a file that was there all along is behind the *)
(* walk, in its hands, or in a directory it has still to read.             *)
(***************************************************************************)
EXTENDS LibraryIndex, TLAPS

LEMMA BlankIsTable == Blank \in Table /\ Rows(Blank) = {}
BY DEF Blank, Table, Rows

LEMMA VisibleIsTable == library \in Table => Visible \in Table
BY BlankIsTable DEF Visible

\* A table made of two is a table.
LEMMA MergeIsTable ==
  ASSUME NEW t \in Table, NEW u \in Table, NEW S
  PROVE  [p \in Paths |-> IF p \in S THEN t[p] ELSE u[p]] \in Table
BY DEF Table

LEMMA PartIsTable ==
  ASSUME NEW t \in Table, NEW S
  PROVE  [p \in Paths |-> IF p \in S THEN t[p] ELSE Gone] \in Table
BY DEF Table

-------------------------------------------------------------------------------
(* Types.                                                                  *)

Request == [stage : {"none", "listed", "read"}, scope : SUBSET Paths, found : Table]

\* The worker's part of the type invariant.
WorkerOK ==
  /\ scan \in {"idle", "wait", "walk"} /\ tries \in 0..(RetryLimit - 1)
  /\ stack \subseteq Folders /\ seen \subseteq Paths /\ missed \subseteq Paths
  /\ entries \in Table /\ batch \in Table
  /\ before \in BOOLEAN /\ steady \in BOOLEAN
  /\ Rows(batch) \subseteq seen
  /\ ~steady => missed = {}
  /\ scan # "walk" => stack = {} /\ entries = Blank /\ seen = {} /\ batch = Blank

LEMMA TypeParts ==
  TypeOK <=> /\ library \in Table /\ index \in Table
             /\ mount \in {"up", "flaky", "empty", "gone"}
             /\ WorkerOK
             /\ view \in [Requests -> Request]
BY DEF TypeOK, WorkerOK, Request

\* A worker that has nothing in hand is typed, idle or waiting.
LEMMA RestIsTyped ==
  ASSUME scan' \in {"idle", "wait"}, tries' = 0, stack' = {}, entries' = Blank,
         seen' = {}, batch' = Blank, before' = FALSE, missed' = {}, steady' = TRUE
  PROVE  WorkerOK'
<1>1. 0 \in 0..(RetryLimit - 1)
  BY IndexAssumption
<1>2. Rows(batch)' = {}
  BY BlankIsTable DEF Rows
<1> QED
  BY <1>1, <1>2, BlankIsTable DEF WorkerOK

LEMMA TypeInit == Init => TypeOK
<1> SUFFICES ASSUME Init PROVE TypeOK
  OBVIOUS
<1>1. WorkerOK
  <2>1. 0 \in 0..(RetryLimit - 1)
    BY IndexAssumption
  <2> QED
    BY <2>1, BlankIsTable DEF Init, WorkerAtRest, WorkerOK
<1>2. NoView \in Request
  BY BlankIsTable DEF NoView, Request
<1> QED
  BY <1>1, <1>2, TypeParts, BlankIsTable DEF Init, Table

LEMMA TypeStep == TypeOK /\ [Next]_vars => TypeOK'
<1> SUFFICES ASSUME TypeOK, [Next]_vars PROVE TypeOK'
  OBVIOUS
<1>1. /\ library \in Table /\ index \in Table
      /\ mount \in {"up", "flaky", "empty", "gone"}
      /\ WorkerOK
      /\ view \in [Requests -> Request]
  BY TypeParts
<1>2. Visible \in Table
  BY <1>1, VisibleIsTable
<1>3. SUFFICES /\ library' \in Table /\ index' \in Table
               /\ mount' \in {"up", "flaky", "empty", "gone"}
               /\ WorkerOK'
               /\ view' \in [Requests -> Request]
  BY DEF TypeOK, WorkerOK, Request
<1>4. CASE LibraryChanges
  <2>1. library' \in Table
    BY <1>1, <1>4 DEF LibraryChanges, Table
  <2>2. missed' \subseteq Paths /\ (~steady => missed' = missed)
    BY <1>1, <1>4 DEF LibraryChanges, WorkerOK
  <2>3. WorkerOK'
    BY <1>1, <1>4, <2>2 DEF LibraryChanges, WorkerOK, Rows
  <2> QED
    BY <1>1, <1>4, <2>1, <2>3 DEF LibraryChanges
<1>5. CASE MountChanges
  <2>1. steady' \in BOOLEAN /\ missed' = {}
    BY <1>5 DEF MountChanges
  <2>2. WorkerOK'
    BY <1>1, <1>5, <2>1 DEF MountChanges, WorkerOK, Rows
  <2> QED
    BY <1>1, <1>5, <2>2 DEF MountChanges
<1>6. CASE StartScan
  <2>1. WorkerOK'
    BY <1>1, <1>6 DEF StartScan, walk, WorkerOK, Rows
  <2> QED
    BY <1>1, <1>6, <2>1 DEF StartScan
<1>7. CASE LibraryUnreadable
  <2>1. CASE tries + 1 = RetryLimit
    BY <1>1, <1>7, <2>1, RestIsTyped DEF LibraryUnreadable, Rest
  <2>2. CASE tries + 1 # RetryLimit
    <3>1. tries' \in 0..(RetryLimit - 1)
      BY <1>1, <1>7, <2>2, IndexAssumption DEF LibraryUnreadable, WorkerOK
    <3>2. WorkerOK'
      BY <1>1, <1>7, <2>2, <3>1 DEF LibraryUnreadable, WorkerOK, Rows
    <3> QED
      BY <1>1, <1>7, <3>2 DEF LibraryUnreadable
  <2> QED
    BY <2>1, <2>2
<1>8. CASE LibraryFound
  <2>1. WorkerOK'
    BY <1>1, <1>8, IndexAssumption DEF LibraryFound, WorkerOK, Rows
  <2> QED
    BY <1>1, <1>8, <2>1 DEF LibraryFound
<1>9. CASE ListDirectory
  <2>1. entries' \in Table
    <3>1. \A d : [p \in Paths |-> IF p[1] = d THEN Visible[p] ELSE Gone] \in Table
      BY <1>2 DEF Table
    <3> QED
      BY <1>1, <1>9, <3>1 DEF ListDirectory, WorkerOK
  <2>2. stack' \subseteq Folders
    BY <1>1, <1>9 DEF ListDirectory, WorkerOK
  <2>3. WorkerOK'
    BY <1>1, <1>9, <2>1, <2>2 DEF ListDirectory, WorkerOK, Rows
  <2> QED
    BY <1>1, <1>9, <2>3 DEF ListDirectory
<1>10. CASE TakeEntry
  <2>1. PICK p \in Rows(entries) :
          /\ entries' = [entries EXCEPT ![p] = Gone]
          /\ \/ \E v \in {entries[p], Visible[p]} \ {Gone} :
                  seen' = seen \cup {p} /\ batch' = [batch EXCEPT ![p] = v]
             \/ UNCHANGED <<seen, batch>>
    BY <1>10 DEF TakeEntry
  <2>2. p \in Paths /\ entries' \in Table
    BY <1>1, <2>1 DEF Rows, WorkerOK, Table
  <2>3. /\ batch' \in Table /\ seen' \subseteq Paths
        /\ \A r \in Paths : batch'[r] # Gone => r \in seen'
    <3>1. CASE UNCHANGED <<seen, batch>>
      BY <1>1, <3>1 DEF WorkerOK, Rows
    <3>2. CASE \E v \in {entries[p], Visible[p]} \ {Gone} :
                 seen' = seen \cup {p} /\ batch' = [batch EXCEPT ![p] = v]
      BY <1>1, <1>2, <3>2, <2>2 DEF WorkerOK, Table, Rows
    <3> QED
      BY <3>1, <3>2, <2>1
  <2>4. WorkerOK'
    BY <1>1, <1>10, <2>2, <2>3 DEF TakeEntry, walk, WorkerOK, Rows
  <2> QED
    BY <1>1, <1>10, <2>4 DEF TakeEntry
<1>11. CASE Flush
  <2>1. index' \in Table
    BY <1>1, <1>11 DEF Flush, Table, WorkerOK
  <2>2. WorkerOK'
    BY <1>1, <1>11, BlankIsTable DEF Flush, walk, WorkerOK, Rows
  <2> QED
    BY <1>1, <1>11, <2>1, <2>2 DEF Flush
<1>12. CASE Prune
  <2>1. index' \in Table
    BY <1>1, <1>12, PartIsTable DEF Prune
  <2> QED
    BY <1>1, <1>12, <2>1, RestIsTyped DEF Prune, Rest
<1>13. CASE ScanFails
  BY <1>1, <1>13, RestIsTyped DEF ScanFails, Rest
<1>14. ASSUME NEW q \in Requests, NEW p \in Paths, OpenFile(q, p)
       PROVE  view' \in [Requests -> Request]
  <2>1. \A readable \in BOOLEAN :
          [r \in Paths |-> IF readable /\ r = p THEN Visible[r] ELSE Gone] \in Table
    BY <1>2 DEF Table
  <2>2. PICK readable \in BOOLEAN :
          view' = [view EXCEPT ![q] =
            [stage |-> "read", scope |-> {p},
             found |-> [r \in Paths |-> IF readable /\ r = p THEN Visible[r]
                                        ELSE Gone]]]
    BY <1>14 DEF OpenFile
  <2> QED
    BY <1>1, <2>1, <2>2 DEF Request
<1>15. ASSUME NEW q \in Requests, NEW d \in Folders, OpenFolder(q, d)
       PROVE  view' \in [Requests -> Request]
  <2>1. \A readable \in BOOLEAN :
          [r \in Paths |-> IF readable /\ r[1] = d THEN Visible[r] ELSE Gone] \in Table
    BY <1>2 DEF Table
  <2>2. PICK readable \in BOOLEAN :
          view' = [view EXCEPT ![q] =
            [stage |-> "listed", scope |-> {r \in Paths : r[1] = d},
             found |-> [r \in Paths |-> IF readable /\ r[1] = d THEN Visible[r]
                                        ELSE Gone]]]
    BY <1>15 DEF OpenFolder
  <2> QED
    BY <1>1, <2>1, <2>2 DEF Request
<1>16. ASSUME NEW q \in Requests, StatEntries(q)
       PROVE  view' \in [Requests -> Request]
  <2>1. view[q] \in Request
    BY <1>1
  <2>2. [p \in Paths |-> IF p \in Rows(view[q].found) THEN Visible[p] ELSE Gone] \in Table
    BY <1>2, PartIsTable
  <2>3. PICK found \in Table :
          view' = [view EXCEPT ![q] = [@ EXCEPT !.stage = "read", !.found = found]]
    BY <1>16, <2>1, <2>2, BlankIsTable DEF StatEntries, Request
  <2> QED
    BY <1>1, <2>1, <2>3 DEF Request
<1>17. ASSUME NEW q \in Requests, Show(q)
       PROVE  index' \in Table /\ view' \in [Requests -> Request]
  <2>1. view[q].found \in Table
    BY <1>1 DEF Request
  <2>2. index' \in Table
    BY <1>1, <1>17, <2>1, MergeIsTable DEF Show
  <2> QED
    BY <1>1, <1>17, <2>2, BlankIsTable DEF Show, NoView, Request
<1>18. ASSUME NEW q \in Requests, ShowStale(q)
       PROVE  view' \in [Requests -> Request]
  BY <1>1, <1>18, BlankIsTable DEF ShowStale, NoView, Request
<1>19. CASE \E q \in Requests :
              \/ \E p \in Paths : OpenFile(q, p)
              \/ \E d \in Folders : OpenFolder(q, d)
              \/ Viewing(q)
  <2>1. UNCHANGED <<library, mount, worker>>
    BY <1>19 DEF OpenFile, OpenFolder, Viewing, StatEntries, Show, ShowStale
  <2>2. WorkerOK'
    BY <1>1, <2>1 DEF worker, WorkerOK, Rows
  <2>3. index' \in Table
    BY <1>1, <1>17, <1>19 DEF OpenFile, OpenFolder, Viewing, StatEntries, ShowStale
  <2>4. view' \in [Requests -> Request]
    BY <1>14, <1>15, <1>16, <1>17, <1>18, <1>19 DEF Viewing
  <2> QED
    BY <1>1, <2>1, <2>2, <2>3, <2>4
<1>20. CASE Restart
  <2>1. view' \in [Requests -> Request]
    BY <1>20, BlankIsTable DEF Restart, NoView, Request
  <2> QED
    BY <1>1, <1>20, <2>1, RestIsTyped, BlankIsTable DEF Restart
<1>21. CASE UNCHANGED vars
  BY <1>1, <1>21 DEF vars, worker, WorkerOK, Rows
<1> QED
  BY <1>4, <1>5, <1>6, <1>7, <1>8, <1>9, <1>10, <1>11, <1>12, <1>13, <1>19, <1>20,
     <1>21 DEF Next, Scanning

\* The index's state keeps its types, for any library and any requests.
THEOREM TypeCorrect == Spec => []TypeOK
BY TypeInit, TypeStep, PTL DEF Spec

-------------------------------------------------------------------------------
(* What the walk has behind it.                                            *)

LEMMA WalkInit == Init => WalkInv
BY DEF Init, WalkInv

LEMMA WalkStep == TypeOK /\ WalkInv /\ [Next]_vars => WalkInv'
<1> SUFFICES ASSUME TypeOK, WalkInv, [Next]_vars, scan' = "walk", steady'
             PROVE  /\ mount' = "up" =>
                         \A p \in Paths \ missed' :
                           /\ library'[p] # Gone
                           /\ \/ p \in seen' \/ entries'[p] # Gone
                              \/ p[1] \in stack' \/ Root \in stack'
                    /\ mount' \in {"empty", "gone"} => seen' = {} /\ entries' = Blank
  BY DEF WalkInv
<1>1. /\ library \in Table /\ entries \in Table /\ WorkerOK
      /\ mount \in {"up", "flaky", "empty", "gone"}
  BY TypeParts DEF WorkerOK
<1>4. CASE LibraryChanges
  <2>1. scan = "walk" /\ steady /\ UNCHANGED <<mount, seen, entries, stack>>
    BY <1>4 DEF LibraryChanges
  <2>2. ASSUME NEW p \in Paths \ missed', mount = "up"
        PROVE  library'[p] # Gone /\ p \in Paths \ missed
    BY <1>1, <1>4, <2>1, <2>2 DEF LibraryChanges, WalkInv, Table
  <2> QED
    BY <2>1, <2>2 DEF WalkInv
<1>5. CASE MountChanges
  BY <1>5 DEF MountChanges
<1>6. CASE StartScan
  BY <1>6 DEF StartScan
<1>7. CASE LibraryUnreadable
  BY <1>7 DEF LibraryUnreadable, Rest
<1>8. CASE LibraryFound
  BY <1>1, <1>8 DEF LibraryFound, WorkerOK
<1>9. CASE ListDirectory
  <2>1. scan = "walk" /\ steady /\ UNCHANGED <<library, mount, seen, missed>>
    BY <1>9 DEF ListDirectory
  <2>2. entries = Blank
    BY <1>9 DEF ListDirectory
  <2>3. CASE mount = "up"
    <3>1. PICK d \in stack, folders \in SUBSET (Folders \ {Root}) :
            /\ entries' = [p \in Paths |-> IF p[1] = d THEN library[p] ELSE Gone]
            /\ {p[1] : p \in Rows(library)} \subseteq folders \cup {Root}
            /\ stack' = (stack \ {d}) \cup (IF d = Root THEN folders ELSE {})
      BY <1>9, <2>3 DEF ListDirectory, Visible
    <3>2. ASSUME NEW p \in Paths \ missed
          PROVE  p \in seen \/ entries'[p] # Gone \/ p[1] \in stack' \/ Root \in stack'
      <4>1. library[p] # Gone /\ (p \in seen \/ p[1] \in stack \/ Root \in stack)
        BY <2>1, <2>2, <2>3 DEF WalkInv, Blank
      <4>2. p[1] \in folders \cup {Root}
        BY <3>1, <4>1 DEF Rows
      <4> QED
        BY <3>1, <4>1, <4>2
    <3> QED
      BY <2>1, <2>3, <3>2 DEF WalkInv
  <2>4. CASE mount \in {"empty", "gone"}
    <3>1. Visible = Blank
      BY <2>4 DEF Visible
    <3>2. entries' = Blank
      BY <1>9, <2>2, <3>1 DEF ListDirectory, Blank
    <3> QED
      BY <2>1, <2>4, <3>2 DEF WalkInv
  <2> QED
    BY <2>1, <2>3, <2>4
<1>10. CASE TakeEntry
  <2>1. scan = "walk" /\ steady /\ UNCHANGED <<library, mount, stack, missed>>
    BY <1>10 DEF TakeEntry, walk
  <2>2. PICK e \in Rows(entries) :
          /\ entries' = [entries EXCEPT ![e] = Gone]
          /\ \/ seen' = seen \cup {e}
             \/ (mount = "flaky" \/ Visible[e] = Gone) /\ seen' = seen
    BY <1>10 DEF TakeEntry
  <2>3. CASE mount = "up"
    <3>1. ASSUME NEW p \in Paths \ missed
          PROVE  p \in seen' \/ entries'[p] # Gone \/ p[1] \in stack \/ Root \in stack
      <4>1. /\ library[p] # Gone
            /\ p \in seen \/ entries[p] # Gone \/ p[1] \in stack \/ Root \in stack
        BY <2>1, <2>3 DEF WalkInv
      <4>2. CASE p = e
        BY <2>2, <2>3, <4>1, <4>2 DEF Visible
      <4>3. CASE p # e
        BY <1>1, <2>2, <4>1, <4>3 DEF Table
      <4> QED
        BY <4>2, <4>3
    <3> QED
      BY <2>1, <2>3, <3>1 DEF WalkInv
  <2>4. CASE mount \in {"empty", "gone"}
    BY <2>1, <2>2, <2>4 DEF WalkInv, Rows, Blank
  <2> QED
    BY <2>1, <2>3, <2>4
<1>11. CASE Flush
  BY <1>11 DEF Flush, walk, WalkInv
<1>12. CASE Prune
  BY <1>12 DEF Prune, Rest
<1>13. CASE ScanFails
  BY <1>13 DEF ScanFails, Rest
<1>14. CASE \E q \in Requests :
              \/ \E p \in Paths : OpenFile(q, p)
              \/ \E d \in Folders : OpenFolder(q, d)
              \/ Viewing(q)
  <2>1. UNCHANGED <<library, mount, worker>>
    BY <1>14 DEF OpenFile, OpenFolder, Viewing, StatEntries, Show, ShowStale
  <2> QED
    BY <2>1 DEF worker, WalkInv
<1>15. CASE Restart
  BY <1>15 DEF Restart
<1>16. CASE UNCHANGED vars
  BY <1>16 DEF vars, worker, WalkInv
<1> QED
  BY <1>4, <1>5, <1>6, <1>7, <1>8, <1>9, <1>10, <1>11, <1>12, <1>13, <1>14, <1>15,
     <1>16 DEF Next, Scanning

\* What a scan deletes from the index is of files that were missing while it
\* walked a mounted library, and of one that is away it deletes nothing.
THEOREM PruneLosesNothing == Spec => PruneOnlyTheGone
<1>1. TypeOK /\ WalkInv => (Prune /\ steady =>
        /\ mount = "up" => Rows(index) \ Rows(index') \subseteq missed
        /\ mount \in {"empty", "gone"} /\ before => index' = index)
  <2> SUFFICES ASSUME TypeOK, WalkInv, Prune, steady
               PROVE  /\ mount = "up" => Rows(index) \ Rows(index') \subseteq missed
                      /\ mount \in {"empty", "gone"} /\ before => index' = index
    OBVIOUS
  <2>1. scan = "walk" /\ stack = {} /\ entries = Blank
    BY DEF Prune, WalkIsOver
  <2>2. mount = "up" => \A p \in Paths \ missed : p \in seen
    BY <2>1 DEF WalkInv, Blank
  <2>3. ASSUME mount = "up", NEW p \in Rows(index) \ Rows(index') PROVE p \in missed
    BY <2>2, <2>3 DEF Prune, Rows
  <2>4. mount \in {"empty", "gone"} /\ before => index' = index
    BY <2>1 DEF WalkInv, Prune
  <2> QED
    BY <2>3, <2>4
<1>2. Spec => [](TypeOK /\ WalkInv)
  BY TypeInit, TypeStep, WalkInit, WalkStep, PTL DEF Spec
<1>3. PruneOnlyTheGone <=> [][Prune /\ steady =>
        /\ mount = "up" => Rows(index) \ Rows(index') \subseteq missed
        /\ mount \in {"empty", "gone"} /\ before => index' = index]_vars
  BY DEF PruneOnlyTheGone
<1> QED
  BY <1>1, <1>2, <1>3, PTL
===============================================================================
